---- MODULE Spec2Model ----
(***************************************************************************)
(* The generator state transform of librustc_mir/transform/generator.rs:   *)
(* the pass that lowers a generator body (a MIR control-flow graph with    *)
(* Yield terminators) into a state machine with a resume function and a    *)
(* drop shim, followed by the execution of the two generated functions.    *)
(*                                                                         *)
(* Blocks and locals are dense indices counted from 0 as in the source;    *)
(* block b of a body is basic_blocks[b + 1], local l is local_decls[l + 1].*)
(* An Option<T> is a sequence of length 0 (None) or 1 (Some).              *)
(***************************************************************************)
EXTENDS Integers, Sequences, FiniteSets, TLC

VARIABLES
    input,       \* the body and generator type handed to run_pass (never changed)
    mir,         \* the body run_pass mutates in place
    transform,   \* the TransformVisitor: remap, storage_liveness, suspension_points
    layout,      \* Option<GeneratorLayout> computed by compute_layout
    drop_clean,  \* Option<BasicBlock>: the block made by insert_clean_drop
    visit_bb,    \* the block transform.visit_mir visits next
    phase,       \* position of run_pass
    ice,         \* the internal compiler error that aborted the pass, "" if none
    discr,       \* the state field of the generator struct at run time
    call         \* the resume / drop call in flight, or the last one finished

vars == <<input, mir, transform, layout, drop_clean, visit_bb, phase, ice, discr, call>>

(***************************************************************************)
(* Bounds of the explored inputs.                                          *)
(***************************************************************************)
MaxBlocks == 3
MaxDataBlocks == 2

(***************************************************************************)
(* Program constants.                                                      *)
(***************************************************************************)
RETURN_PLACE == 0
SelfArg == 1
UNRESUMED == 0
RETURNED == 1
POISONED == 2
FirstSuspendState == 3
LayoutVariant == 3
START_BLOCK == 0

None == <<>>
Some(x) == <<x>>

SeqToSet(s) == {s[i] : i \in DOMAIN s}

(***************************************************************************)
(* MIR syntax.  A place is a base local and the projection elements        *)
(* applied to it, innermost first.                                         *)
(***************************************************************************)
Deref == [k |-> "Deref", i |-> 0]
Field(i) == [k |-> "Field", i |-> i]
Downcast(v) == [k |-> "Downcast", i |-> v]
Index(l) == [k |-> "Index", i |-> l]

Local(l) == [local |-> l, proj |-> <<>>]
Project(p, elems) == [local |-> p.local, proj |-> p.proj \o elems]
self_place == Local(SelfArg)

StorageLive(l) ==
    [kind |-> "StorageLive", local |-> l, place |-> None, rk |-> "",
     ops |-> <<>>, variant |-> 0]
StorageDead(l) ==
    [kind |-> "StorageDead", local |-> l, place |-> None, rk |-> "",
     ops |-> <<>>, variant |-> 0]
\* place = rvalue; rk is the rvalue kind, ops the places its operands read
\* (constant operands read no place), variant the variant of an Aggregate.
Assign(p, rk, ops, variant) ==
    [kind |-> "Assign", local |-> 0, place |-> Some(p), rk |-> rk,
     ops |-> ops, variant |-> variant]
SetDiscriminant(p, variant) ==
    [kind |-> "SetDiscriminant", local |-> 0, place |-> Some(p), rk |-> "",
     ops |-> <<>>, variant |-> variant]
Retag(p) ==
    [kind |-> "Retag", local |-> 0, place |-> Some(p), rk |-> "",
     ops |-> <<>>, variant |-> 0]

Term(kind, targets, unwind, place, values, msg) ==
    [kind |-> kind, targets |-> targets, unwind |-> unwind, place |-> place,
     values |-> values, msg |-> msg]
Return == Term("Return", <<>>, None, <<>>, <<>>, "")
Resume == Term("Resume", <<>>, None, <<>>, <<>>, "")
Unreachable == Term("Unreachable", <<>>, None, <<>>, <<>>, "")
GeneratorDrop == Term("GeneratorDrop", <<>>, None, <<>>, <<>>, "")
Goto(t) == Term("Goto", <<t>>, None, <<>>, <<>>, "")
\* Yield { value, resume, drop }: the value operand, the resume block, the
\* optional drop block.
Yield(value, resume, drop) == Term("Yield", <<resume>>, drop, value, <<>>, "")
Call(target, cleanup) == Term("Call", <<target>>, cleanup, <<>>, <<>>, "")
Drop(location, target, unwind) ==
    Term("Drop", <<target>>, unwind, <<location>>, <<>>, "")
\* Assert { cond: const false, expected: true, msg, target, cleanup }
AssertFalse(msg, target, cleanup) ==
    Term("Assert", <<target>>, cleanup, <<>>, <<>>, msg)
SwitchInt(d, values, targets) ==
    Term("SwitchInt", targets, None, <<d>>, values, "")

BasicBlockData(statements, terminator, is_cleanup) ==
    [statements |-> statements, terminator |-> terminator,
     is_cleanup |-> is_cleanup]

LocalDecl(ty, internal) == [ty |-> ty, internal |-> internal]

Blocks(m) == 0 .. Len(m.basic_blocks) - 1
BB(m, b) == m.basic_blocks[b + 1]
Locals(m) == 0 .. Len(m.local_decls) - 1

\* Terminator::successors: every block the terminator can transfer to.
Successors(t) == SeqToSet(t.targets) \cup SeqToSet(t.unwind)

\* Every local a visitor's visit_local sees in a statement or terminator:
\* the locals of storage markers and of Index projections (base locals reach
\* visit_local only through super_place).
IndexLocals(p) == {p.proj[i].i : i \in {j \in DOMAIN p.proj : p.proj[j].k = "Index"}}
PlaceLocals(p) == {p.local} \cup IndexLocals(p)
OpsLocals(ops) == UNION {PlaceLocals(ops[i]) : i \in DOMAIN ops}

(***************************************************************************)
(* What each visitor of the pass does to a local and to a place.           *)
(***************************************************************************)
\* RenameLocalVisitor::visit_local.
RenameLocal(l, from, to) == IF l = from THEN to ELSE l

RenamePlace(p, from, to) ==
    [local |-> RenameLocal(p.local, from, to),
     proj |-> [i \in DOMAIN p.proj |->
                  IF p.proj[i].k = "Index"
                  THEN Index(RenameLocal(p.proj[i].i, from, to))
                  ELSE p.proj[i]]]

\* Seeded fault: the field is looked up in the unresumed variant.
make_field_unresumed(variant_index, idx) ==
    Project(self_place, <<Downcast(UNRESUMED), Field(idx)>>)

\* Lines 193-201: field idx of variant variant_index of the generator struct.
make_field(variant_index, idx) ==
    Project(self_place, <<Downcast(variant_index), Field(idx)>>)

\* visit_place: a place based on a remapped local becomes the same place
\* based on the generator struct field; any other place is left alone.
TransformPlace(remap, p) ==
    IF p.local \in DOMAIN remap
    THEN Project(make_field(remap[p.local].variant, remap[p.local].idx), p.proj)
    ELSE p

\* Seeded fault: only the bare argument is rewritten, not the base of a
\* projection.
DerefArgPlaceBare(p) ==
    IF p = [local |-> SelfArg, proj |-> <<>>] THEN [p EXCEPT !.proj = <<Deref>>] ELSE p

\* DerefArgVisitor::visit_place: the generator argument becomes its deref.
DerefArgPlace(p) ==
    IF p.local = SelfArg THEN [p EXCEPT !.proj = <<Deref>> \o @] ELSE p

\* PinArgVisitor::visit_place: the generator argument becomes its field 0.
PinArgPlace(p) ==
    IF p.local = SelfArg THEN [p EXCEPT !.proj = <<Field(0)>> \o @] ELSE p

(***************************************************************************)
(* MutVisitor.  A visitor is a record naming the implementation and        *)
(* carrying its fields; visit_place rewrites every place (statement        *)
(* places, rvalue operands, terminator operands), visit_local every local  *)
(* of a storage marker.                                                    *)
(***************************************************************************)
RenameLocalVisitor(from, to) == [visitor |-> "RenameLocalVisitor", from |-> from, to |-> to]
TransformVisitor(remap) == [visitor |-> "TransformVisitor", remap |-> remap]
DerefArgVisitor == [visitor |-> "DerefArgVisitor"]
PinArgVisitor == [visitor |-> "PinArgVisitor"]

visit_place(v, p) ==
    CASE v.visitor = "RenameLocalVisitor" -> RenamePlace(p, v.from, v.to)
      [] v.visitor = "TransformVisitor" -> TransformPlace(v.remap, p)
      [] v.visitor = "DerefArgVisitor" -> DerefArgPlace(p)
      [] v.visitor = "PinArgVisitor" -> PinArgPlace(p)

visit_local(v, l) ==
    IF v.visitor = "RenameLocalVisitor" THEN RenameLocal(l, v.from, v.to) ELSE l

VisitStatement(v, s) ==
    [s EXCEPT !.local = IF s.kind \in {"StorageLive", "StorageDead"}
                        THEN visit_local(v, @) ELSE @,
              !.place = [i \in DOMAIN @ |-> visit_place(v, @[i])],
              !.ops = [i \in DOMAIN @ |-> visit_place(v, @[i])]]

VisitTerminator(v, t) ==
    [t EXCEPT !.place = [i \in DOMAIN @ |-> visit_place(v, @[i])]]

VisitBlockData(v, d) ==
    [d EXCEPT !.statements = [i \in DOMAIN @ |-> VisitStatement(v, @[i])],
              !.terminator = VisitTerminator(v, @)]

VisitMir(v, m) ==
    [m EXCEPT !.basic_blocks = [i \in DOMAIN @ |-> VisitBlockData(v, @[i])]]

(***************************************************************************)
(* replace_result_variable: a fresh local takes the declaration of         *)
(* RETURN_PLACE, RETURN_PLACE gets the GeneratorState type, and every use  *)
(* of RETURN_PLACE in the body is renamed to the fresh local.              *)
(***************************************************************************)
replace_result_variable(ret_ty, m) ==
    LET new_ret_local == Len(m.local_decls)
        pushed == Append(m.local_decls, LocalDecl(ret_ty, FALSE))
        swapped == [pushed EXCEPT ![RETURN_PLACE + 1] = pushed[new_ret_local + 1],
                                  ![new_ret_local + 1] = pushed[RETURN_PLACE + 1]]
        renamed == VisitMir(RenameLocalVisitor(RETURN_PLACE, new_ret_local),
                            [m EXCEPT !.local_decls = swapped])
    IN  [mir |-> renamed, new_ret_local |-> new_ret_local]

(***************************************************************************)
(* The dataflow analyses locals_live_across_suspend_points consumes.       *)
(* MaybeStorageLive: forward, gen on StorageLive, kill on StorageDead.     *)
(* HaveBeenBorrowedLocals: forward, gen on a Ref rvalue of a place not     *)
(* behind a Deref.  Both join by union and start empty at every block.     *)
(***************************************************************************)
BorrowedBy(s) ==
    IF s.kind = "Assign" /\ s.rk = "Ref"
       /\ \A i \in DOMAIN s.ops[1].proj : s.ops[1].proj[i].k # "Deref"
    THEN {s.ops[1].local}
    ELSE {}

StatementEffect(analysis, s, set) ==
    IF analysis = "MaybeStorageLive"
    THEN IF s.kind = "StorageLive" THEN set \cup {s.local}
         ELSE IF s.kind = "StorageDead" THEN set \ {s.local}
         ELSE set
    ELSE set \cup BorrowedBy(s)

RECURSIVE ApplyStatements(_, _, _)
ApplyStatements(analysis, statements, set) ==
    IF statements = <<>> THEN set
    ELSE ApplyStatements(analysis, Tail(statements),
                         StatementEffect(analysis, Head(statements), set))

Predecessors(m, b) == {p \in Blocks(m) : b \in Successors(BB(m, p).terminator)}

RECURSIVE ForwardFixpoint(_, _, _)
ForwardFixpoint(m, analysis, entry) ==
    LET next == [b \in Blocks(m) |->
                    entry[b] \cup
                    UNION {ApplyStatements(analysis, BB(m, p).statements, entry[p])
                           : p \in Predecessors(m, b)}]
    IN  IF next = entry THEN entry ELSE ForwardFixpoint(m, analysis, next)

\* do_dataflow: the entry set of every block at the fixpoint.
do_dataflow(m, analysis) ==
    ForwardFixpoint(m, analysis, [b \in Blocks(m) |-> {}])

\* state_for_location at the terminator of block b: the entry set with the
\* effect of every statement of the block applied.
state_for_location(m, analysis, result, b) ==
    ApplyStatements(analysis, BB(m, b).statements, result[b])

(***************************************************************************)
(* liveness_of_locals: backward may-live analysis over locals.  An Assign  *)
(* to a bare local defines it; every other occurrence of a local is a use. *)
(***************************************************************************)
StatementDefs(s) ==
    IF s.kind = "Assign" /\ s.place[1].proj = <<>> THEN {s.place[1].local} ELSE {}

StatementUses(s) ==
    IF s.kind = "Assign"
    THEN OpsLocals(s.ops) \cup
         (IF s.place[1].proj = <<>> THEN {} ELSE PlaceLocals(s.place[1]))
    ELSE IF s.kind = "SetDiscriminant" THEN PlaceLocals(s.place[1])
    ELSE {}

RECURSIVE LiveBefore(_, _)
LiveBefore(statements, live) ==
    IF statements = <<>> THEN live
    ELSE LET s == statements[Len(statements)]
         IN  LiveBefore(SubSeq(statements, 1, Len(statements) - 1),
                        (live \ StatementDefs(s)) \cup StatementUses(s))

LiveIn(m, b, outs) ==
    LiveBefore(BB(m, b).statements, outs[b] \cup OpsLocals(BB(m, b).terminator.place))

RECURSIVE BackwardFixpoint(_, _)
BackwardFixpoint(m, outs) ==
    LET next == [b \in Blocks(m) |->
                    outs[b] \cup
                    UNION {LiveIn(m, s, outs) : s \in Successors(BB(m, b).terminator)}]
    IN  IF next = outs THEN outs ELSE BackwardFixpoint(m, next)

\* liveness.outs
liveness_of_locals(m) == BackwardFixpoint(m, [b \in Blocks(m) |-> {}])

(***************************************************************************)
(* locals_live_across_suspend_points                                       *)
(***************************************************************************)
\* StorageIgnored: the locals no StorageLive / StorageDead statement names.
StorageMarked(m) ==
    UNION {{BB(m, b).statements[i].local :
               i \in {j \in DOMAIN BB(m, b).statements :
                         BB(m, b).statements[j].kind \in {"StorageLive", "StorageDead"}}}
           : b \in Blocks(m)}

StorageIgnored(m) == Locals(m) \ StorageMarked(m)

\* The blocks ending in a Yield terminator.
SuspendingBlocks(m) == {b \in Blocks(m) : BB(m, b).terminator.kind = "Yield"}

\* Seeded fault: the storage liveness does not bound the live locals.
LiveAtSuspendUnbounded(m, movable, b, outs, storage_live, borrowed) ==
    IF movable THEN outs[b]
    ELSE outs[b] \cup state_for_location(m, "HaveBeenBorrowedLocals", borrowed, b)

\* The locals live at the suspension point ending block b: liveness.outs[b]
\* (with the borrowed locals for an immovable generator) intersected with
\* the storage-live locals and the always-live ones.
LiveAtSuspend(m, movable, b, outs, storage_live, borrowed) ==
    LET live == IF movable THEN outs[b]
                ELSE outs[b] \cup
                     state_for_location(m, "HaveBeenBorrowedLocals", borrowed, b)
        storage_liveness == state_for_location(m, "MaybeStorageLive", storage_live, b)
    IN  (storage_liveness \cup StorageIgnored(m)) \cap live

\* Seeded fault: the always-live locals are added before the entry is stored.
StorageLivenessMapWithIgnored(m, storage_live, suspending_blocks) ==
    [b \in suspending_blocks |->
        state_for_location(m, "MaybeStorageLive", storage_live, b)
            \cup StorageIgnored(m)]

\* Lines 466-473: for each block ending in a Yield, the storage liveness at
\* its terminator, stored before the always-live locals are added to it.
StorageLivenessMap(m, storage_live, suspending_blocks) ==
    [b \in suspending_blocks |->
        state_for_location(m, "MaybeStorageLive", storage_live, b)]

\* Seeded fault: the generator argument stays in the live set.
locals_live_across_suspend_points_with_self(m, movable) ==
    LET storage_live == do_dataflow(m, "MaybeStorageLive")
        borrowed == IF movable THEN [b \in Blocks(m) |-> {}]
                    ELSE do_dataflow(m, "HaveBeenBorrowedLocals")
        outs == liveness_of_locals(m)
        suspending_blocks == SuspendingBlocks(m)
        set == UNION {LiveAtSuspend(m, movable, b, outs, storage_live, borrowed)
                      : b \in suspending_blocks}
    IN  [live_locals |-> set,
         storage_liveness |->
             StorageLivenessMap(m, storage_live, suspending_blocks),
         suspending_blocks |-> suspending_blocks]

\* Lines 389-500.
locals_live_across_suspend_points(m, movable) ==
    LET storage_live == do_dataflow(m, "MaybeStorageLive")
        borrowed == IF movable THEN [b \in Blocks(m) |-> {}]
                    ELSE do_dataflow(m, "HaveBeenBorrowedLocals")
        outs == liveness_of_locals(m)
        suspending_blocks == SuspendingBlocks(m)
        set == UNION {LiveAtSuspend(m, movable, b, outs, storage_live, borrowed)
                      : b \in suspending_blocks}
    IN  [live_locals |-> set \ {SelfArg},
         storage_liveness |->
             StorageLivenessMap(m, storage_live, suspending_blocks),
         suspending_blocks |-> suspending_blocks]

(***************************************************************************)
(* compute_layout                                                          *)
(***************************************************************************)
\* The position of l among the members of set, in increasing order.
Rank(l, set) == Cardinality({k \in set : k < l})

\* The members of a set of naturals as an increasing sequence.
Sorted(set) ==
    [i \in 1 .. Cardinality(set) |-> CHOOSE l \in set : Rank(l, set) = i - 1]

\* Seeded fault: compiler temporaries are checked like user variables.
BrokenMirInternalToo(m, live_locals, upvars, interior) ==
    \E l \in Locals(m) :
        /\ l \in live_locals
        /\ m.local_decls[l + 1].ty \notin interior
        /\ m.local_decls[l + 1].ty \notin SeqToSet(upvars)

\* The sanity check of lines 524-539: a live, non-internal local whose type
\* neither the witness nor the upvars know is a span_bug.
BrokenMir(m, live_locals, upvars, interior) ==
    \E l \in Locals(m) :
        /\ l \in live_locals
        /\ ~m.local_decls[l + 1].internal
        /\ m.local_decls[l + 1].ty \notin interior
        /\ m.local_decls[l + 1].ty \notin SeqToSet(upvars)

\* Seeded fault: compiler temporaries get no entry.
RemapOfUserOnly(m, live_locals) ==
    [l \in {k \in live_locals : ~m.local_decls[k + 1].internal} |->
        [ty |-> m.local_decls[l + 1].ty, variant |-> LayoutVariant,
         idx |-> Rank(l, live_locals)]]

\* Seeded fault: the fields are numbered from the last live local down.
RemapOfDescending(m, live_locals) ==
    [l \in live_locals |->
        [ty |-> m.local_decls[l + 1].ty, variant |-> LayoutVariant,
         idx |-> Cardinality(live_locals) - 1 - Rank(l, live_locals)]]

\* Lines 541-563: every live local, in increasing order, gets the next field.
RemapOf(m, live_locals) ==
    [l \in live_locals |->
        [ty |-> m.local_decls[l + 1].ty, variant |-> LayoutVariant,
         idx |-> Rank(l, live_locals)]]

\* Seeded fault: the suspending blocks share a single state variant.
GeneratorLayoutOfShared(m, live_locals, suspending_blocks) ==
    LET field_tys == [i \in 1 .. Cardinality(live_locals) |->
                         m.local_decls[Sorted(live_locals)[i] + 1].ty]
        all_vars == [i \in 1 .. Len(field_tys) |-> i - 1]
    IN  [field_tys |-> field_tys,
         variant_fields |->
             [v \in 1 .. (IF suspending_blocks = {} THEN 3 ELSE 4) |->
                 IF v <= 3 THEN <<>> ELSE all_vars]]

\* Lines 565-574: three empty variants, then one variant holding every field
\* for each suspending block.
GeneratorLayoutOf(m, live_locals, suspending_blocks) ==
    LET field_tys == [i \in 1 .. Cardinality(live_locals) |->
                         m.local_decls[Sorted(live_locals)[i] + 1].ty]
        all_vars == [i \in 1 .. Len(field_tys) |-> i - 1]
    IN  [field_tys |-> field_tys,
         variant_fields |->
             [v \in 1 .. 3 + Cardinality(suspending_blocks) |->
                 IF v <= 3 THEN <<>> ELSE all_vars]]

compute_layout(upvars, interior, movable, m) ==
    LET r == locals_live_across_suspend_points(m, movable)
        dummy_local == LocalDecl("()", TRUE)
    IN  [bug |-> BrokenMir(m, r.live_locals, upvars, interior),
         remap |-> RemapOf(m, r.live_locals),
         layout |-> GeneratorLayoutOf(m, r.live_locals, r.suspending_blocks),
         storage_liveness |-> r.storage_liveness,
         mir |-> [m EXCEPT !.local_decls =
                     [i \in DOMAIN @ |->
                         IF (i - 1) \in r.live_locals THEN dummy_local ELSE @[i]]]]

(***************************************************************************)
(* TransformVisitor                                                        *)
(***************************************************************************)
\* make_state: the GeneratorState aggregate of variant idx around val.
make_state(idx, val) == [rk |-> "Aggregate", ops |-> val, variant |-> idx]

set_discr(state_disc) == SetDiscriminant(self_place, state_disc)

\* The locals that reach visit_local while a block is visited: those of
\* storage markers and those of Index projection elements.
LocalsVisited(d) ==
    UNION {IF d.statements[i].kind \in {"StorageLive", "StorageDead"}
           THEN {d.statements[i].local}
           ELSE UNION {IndexLocals(d.statements[i].place[j])
                       : j \in DOMAIN d.statements[i].place}
                \cup UNION {IndexLocals(d.statements[i].ops[j])
                            : j \in DOMAIN d.statements[i].ops}
           : i \in DOMAIN d.statements}
    \cup UNION {IndexLocals(d.terminator.place[j]) : j \in DOMAIN d.terminator.place}

\* Seeded fault: the assertion demands that the local is in the remap.
VisitLocalFailsAbsent(remap, d) == LocalsVisited(d) \ DOMAIN remap # {}

\* visit_local: assert_eq!(self.remap.get(local), None) fails for some local.
VisitLocalFails(remap, d) == LocalsVisited(d) \cap DOMAIN remap # {}

\* Seeded fault: every storage marker is removed.
RetainStatementsNone(remap, statements) ==
    SelectSeq(statements,
              LAMBDA s : s.kind \notin {"StorageLive", "StorageDead"})

\* Seeded fault: every StorageDead is removed, whatever its local.
RetainStatementsDead(remap, statements) ==
    SelectSeq(statements,
              LAMBDA s : ~(s.kind = "StorageDead"
                           \/ (s.kind = "StorageLive" /\ s.local \in DOMAIN remap)))

\* retain_statements of lines 253-260.
RetainStatements(remap, statements) ==
    SelectSeq(statements,
              LAMBDA s : ~(s.kind \in {"StorageLive", "StorageDead"}
                           /\ s.local \in DOMAIN remap))

\* Seeded fault: every Yield stores the first suspend state.
NextStateFirst(tv, isYield) ==
    IF isYield THEN FirstSuspendState ELSE RETURNED

\* The state a rewritten terminator stores: the next free suspend state for
\* a Yield, RETURNED for a Return.
NextState(tv, isYield) ==
    IF isYield THEN FirstSuspendState + Len(tv.suspension_points) ELSE RETURNED

\* Seeded fault: a Yield stores RETURNED like a Return.
ExitStatementsReturned(tv, term) ==
    LET rv == IF term.kind = "Yield" THEN make_state(0, term.place)
              ELSE make_state(1, <<Local(tv.new_ret_local)>>)
    IN  <<Assign(Local(RETURN_PLACE), rv.rk, rv.ops, rv.variant),
          set_discr(RETURNED)>>

\* Seeded fault: the state is written before the result.
ExitStatementsDiscrFirst(tv, term) ==
    LET isYield == term.kind = "Yield"
        rv == IF isYield THEN make_state(0, term.place)
              ELSE make_state(1, <<Local(tv.new_ret_local)>>)
    IN  <<set_discr(NextState(tv, isYield)),
          Assign(Local(RETURN_PLACE), rv.rk, rv.ops, rv.variant)>>

\* The statements pushed for a Return or Yield terminator.
ExitStatements(tv, term) ==
    LET isYield == term.kind = "Yield"
        rv == IF isYield THEN make_state(0, term.place)
              ELSE make_state(1, <<Local(tv.new_ret_local)>>)
    IN  <<Assign(Local(RETURN_PLACE), rv.rk, rv.ops, rv.variant),
          set_discr(NextState(tv, isYield))>>

\* Seeded fault: only a Return is rewritten.
IsExitReturnOnly(term) == term.kind = "Return"

\* Lines 262-272: the terminators that leave the generator with a value.
IsExit(term) == term.kind \in {"Yield", "Return"}

\* visit_basic_block_data: the rewritten block, the visitor after it, and
\* whether an assertion (visit_local) or the unwrap of the storage_liveness
\* lookup failed.
visit_basic_block_data(tv, block, data) ==
    LET term == data.terminator
        isYield == term.kind = "Yield"
        exits == IsExit(term)
        retained == RetainStatements(tv.remap, data.statements)
        pushed == [data EXCEPT
                      !.statements = IF exits THEN retained \o ExitStatements(tv, term)
                                     ELSE retained,
                      !.terminator = IF exits THEN Return ELSE term]
        unwrapFails == isYield /\ block \notin DOMAIN tv.storage_liveness
        point == [state |-> NextState(tv, TRUE),
                  resume |-> term.targets[1],
                  drop |-> term.unwind,
                  storage_liveness |-> tv.storage_liveness[block]]
    IN  [failed |-> unwrapFails \/ VisitLocalFails(tv.remap, pushed),
         data |-> VisitBlockData(TransformVisitor(tv.remap), pushed),
         tv |-> IF isYield /\ ~unwrapFails
                THEN [tv EXCEPT !.suspension_points = Append(@, point)]
                ELSE tv]

(***************************************************************************)
(* The two argument adapters.                                              *)
(***************************************************************************)
\* visit_local of both visitors: assert_ne!(*local, self_arg()).
SelfArgVisited(m) == \E b \in Blocks(m) : SelfArg \in LocalsVisited(BB(m, b))

make_generator_state_argument_indirect(m) ==
    VisitMir(DerefArgVisitor,
             [m EXCEPT !.local_decls[SelfArg + 1].ty = "&mut " \o @])

make_generator_state_argument_pinned(m) ==
    VisitMir(PinArgVisitor,
             [m EXCEPT !.local_decls[SelfArg + 1].ty = "Pin<" \o @ \o ">"])

(***************************************************************************)
(* Block insertion helpers.                                                *)
(***************************************************************************)
PushBlock(m, data) == [m EXCEPT !.basic_blocks = Append(@, data)]

insert_term_block(m, kind) ==
    [mir |-> PushBlock(m, BasicBlockData(<<>>, kind, FALSE)),
     block |-> Len(m.basic_blocks)]

\* Seeded fault: both panic blocks carry the same message.
insert_panic_block_anonymous(m, message) ==
    LET assert_block == Len(m.basic_blocks)
    IN  [mir |-> PushBlock(m, BasicBlockData(<<>>,
                     AssertFalse("GeneratorResumedAfterReturn", assert_block, None),
                     FALSE)),
         block |-> assert_block]

\* Lines 751-781: a block whose Assert of a false constant always fails.
insert_panic_block(m, message) ==
    LET assert_block == Len(m.basic_blocks)
    IN  [mir |-> PushBlock(m, BasicBlockData(<<>>,
                     AssertFalse(message, assert_block, None), FALSE)),
         block |-> assert_block]

insert_clean_drop(m) ==
    LET r == insert_term_block(m, Return)
        drop_clean_block == Len(r.mir.basic_blocks)
    IN  [mir |-> PushBlock(r.mir, BasicBlockData(<<>>,
                     Drop(self_place, r.block, None), FALSE)),
         block |-> drop_clean_block]

(***************************************************************************)
(* elaborate_generator_drops: every Drop of the bare generator argument is *)
(* expanded by elaborate_drop into a ladder that drops the upvar fields    *)
(* one by one and then continues at the Drop's target.  elaborate_drop and *)
(* MirPatch live in librustc_mir/util, outside generator.rs: the ladder    *)
(* drops the upvar fields only, each of its drops unwinds to the unwind    *)
(* block handed to elaborate_drop.                                         *)
(***************************************************************************)
\* The blocks lines 630-641 select.
SelfDrops(m) ==
    {b \in Blocks(m) : /\ BB(m, b).terminator.kind = "Drop"
                       /\ BB(m, b).terminator.place = <<self_place>>}

\* Lines 642-646: a Drop without an unwind block outside cleanup code
\* unwinds to the patch's resume block.
NeedsResumeBlock(m) ==
    \E b \in SelfDrops(m) :
        ~BB(m, b).is_cleanup /\ BB(m, b).terminator.unwind = None

\* elaborate_drop for the generator argument: one Drop per upvar field, in
\* field order, appended to the body; block b jumps to the first of them.
elaborate_drop(m, upvars, b, target, unwind) ==
    LET first == Len(m.basic_blocks)
        n == Len(upvars)
        ladder == [i \in 1 .. n |->
                      BasicBlockData(<<>>,
                          Drop(Project(self_place, <<Field(i - 1)>>),
                               IF i < n THEN first + i ELSE target, unwind),
                          BB(m, b).is_cleanup)]
    IN  [m EXCEPT !.basic_blocks =
                      [@ EXCEPT ![b + 1].terminator =
                                    Goto(IF n = 0 THEN target ELSE first)]
                      \o ladder]

RECURSIVE ElaborateEach(_, _, _, _)
ElaborateEach(m, upvars, todo, resume_block) ==
    IF todo = {} THEN m
    ELSE LET b == CHOOSE x \in todo : \A y \in todo : x <= y
             t == BB(m, b).terminator
             unwind == IF BB(m, b).is_cleanup THEN None
                       ELSE IF t.unwind = None THEN Some(resume_block)
                       ELSE t.unwind
         IN  ElaborateEach(elaborate_drop(m, upvars, b, t.targets[1], unwind),
                           upvars, todo \ {b}, resume_block)

\* The patch's resume block is a cleanup block of its own, appended when the
\* patch is applied (line 657); the blocks of the body keep their indices.
elaborate_generator_drops(m, upvars) ==
    LET patched == IF NeedsResumeBlock(m)
                   THEN PushBlock(m, BasicBlockData(<<>>, Resume, TRUE))
                   ELSE m
        resume_block == Len(m.basic_blocks)
    IN  ElaborateEach(patched, upvars, SelfDrops(m), resume_block)

(***************************************************************************)
(* create_cases and insert_switch                                          *)
(***************************************************************************)
\* Seeded fault: the drop shim resumes the body where it should drop.
PointTargetResumeOnly(which, point) == Some(point.resume)

\* The target a suspension point contributes to the resume function or to
\* the drop shim (the closures of lines 672 and 798).
PointTarget(which, point) ==
    IF which = "resume" THEN Some(point.resume) ELSE point.drop

\* Seeded fault: remapped locals get a marker too.
StorageLiveStatementsAll(m, tv, point) ==
    LET ls == {l \in Locals(m) : l \in point.storage_liveness}
    IN  [i \in 1 .. Cardinality(ls) |-> StorageLive(Sorted(ls)[i])]

\* The StorageLive statements of lines 869-877, in increasing local order.
StorageLiveStatements(m, tv, point) ==
    LET ls == {l \in Locals(m) : /\ l \in point.storage_liveness
                                 /\ l \notin DOMAIN tv.remap}
    IN  [i \in 1 .. Cardinality(ls) |-> StorageLive(Sorted(ls)[i])]

RECURSIVE CasesFrom(_, _, _, _)
CasesFrom(m, tv, which, i) ==
    IF i > Len(tv.suspension_points) THEN [mir |-> m, cases |-> <<>>]
    ELSE LET point == tv.suspension_points[i]
             target == PointTarget(which, point)
         IN  IF target = None THEN CasesFrom(m, tv, which, i + 1)
             ELSE LET block == Len(m.basic_blocks)
                      pushed == PushBlock(m,
                                    BasicBlockData(StorageLiveStatements(m, tv, point),
                                                   Goto(target[1]), FALSE))
                      rest == CasesFrom(pushed, tv, which, i + 1)
                  IN  [mir |-> rest.mir,
                       cases |-> <<[state |-> point.state, block |-> block]>>
                                 \o rest.cases]

create_cases(m, tv, which) == CasesFrom(m, tv, which, 1)

\* Seeded fault: the unwind edges are not moved.
ShiftSuccessorsTargetsOnly(t) ==
    [t EXCEPT !.targets = [i \in DOMAIN @ |-> @[i] + 1]]

\* Lines 602-606: every successor of every terminator moves up by one.
ShiftSuccessors(t) ==
    [t EXCEPT !.targets = [i \in DOMAIN @ |-> @[i] + 1],
              !.unwind = [i \in DOMAIN @ |-> @[i] + 1]]

\* get_discr: a fresh internal temporary and the statement that reads the
\* discriminant of the generator argument into it.
get_discr(m) ==
    LET temp == Local(Len(m.local_decls))
    IN  [mir |-> [m EXCEPT !.local_decls = Append(@, LocalDecl("isize", TRUE))],
         assign |-> Assign(temp, "Discriminant", <<self_place>>, 0),
         temp |-> temp]

insert_switch(m, cases, default) ==
    LET d == insert_term_block(m, default)
        g == get_discr(d.mir)
        switch == SwitchInt(g.temp,
                            [i \in DOMAIN cases |-> cases[i].state],
                            [i \in 1 .. Len(cases) + 1 |->
                                IF i <= Len(cases) THEN cases[i].block ELSE d.block])
        inserted == <<BasicBlockData(<<g.assign>>, switch, FALSE)>>
                    \o g.mir.basic_blocks
    IN  [g.mir EXCEPT !.basic_blocks =
            [i \in DOMAIN inserted |->
                [inserted[i] EXCEPT !.terminator = ShiftSuccessors(@)]]]

(***************************************************************************)
(* create_generator_drop_shim                                              *)
(***************************************************************************)
\* Seeded fault: the unresumed state enters the body as in the resume function.
DropShimCasesEntry(cases, drop_clean_block) ==
    <<[state |-> UNRESUMED, block |-> START_BLOCK]>> \o cases

\* Seeded fault: a returned generator drops its upvars again.
DropShimCasesReturned(cases, drop_clean_block) ==
    <<[state |-> UNRESUMED, block |-> drop_clean_block],
      [state |-> RETURNED, block |-> drop_clean_block]>> \o cases

\* Line 674: the unresumed state drops the upvars in the clean-drop block.
DropShimCases(cases, drop_clean_block) ==
    <<[state |-> UNRESUMED, block |-> drop_clean_block]>> \o cases

\* Seeded fault: the clone keeps its GeneratorDrop terminators.
ReplaceGeneratorDropNone(m) == m

\* Lines 681-686: every GeneratorDrop of the clone becomes a Return.
ReplaceGeneratorDrop(m) ==
    [m EXCEPT !.basic_blocks =
        [i \in DOMAIN @ |->
            IF @[i].terminator.kind = "GeneratorDrop"
            THEN [@[i] EXCEPT !.terminator = Return] ELSE @[i]]]

\* Lines 716-722: with -Z mir-emit-retag the shim starts by retagging its
\* argument, whose type has just changed to a raw pointer.
EmitRetag(m, mir_emit_retag) ==
    IF mir_emit_retag
    THEN [m EXCEPT !.basic_blocks[START_BLOCK + 1].statements =
                       <<Retag(self_place)>> \o @]
    ELSE m

create_generator_drop_shim(tv, m, drop_clean_block, mir_emit_retag) ==
    LET c == create_cases(m, tv, "drop")
        switched == insert_switch(c.mir, DropShimCases(c.cases, drop_clean_block),
                                  Return)
        returning == ReplaceGeneratorDrop(switched)
        unit_ret == [returning EXCEPT
                        !.local_decls[RETURN_PLACE + 1] = LocalDecl("()", FALSE)]
        indirect == make_generator_state_argument_indirect(unit_ret)
        raw == [indirect EXCEPT
                   !.local_decls[SelfArg + 1] =
                       LocalDecl("*mut " \o m.local_decls[SelfArg + 1].ty, FALSE)]
    IN  [failed |-> SelfArgVisited(unit_ret),
         mir |-> EmitRetag(raw, mir_emit_retag)]

\* Seeded fault: the shim is built in the body itself, not in a clone.
AttachDropShimInPlace(m, drop_shim) ==
    [drop_shim EXCEPT !.generator_drop = Some(drop_shim)]

\* Line 995: the shim, built from a clone (line 668), is attached to the
\* body, which is otherwise as it was.
AttachDropShim(m, drop_shim) == [m EXCEPT !.generator_drop = Some(drop_shim)]

(***************************************************************************)
(* create_generator_resume_function.  no_landing_pads (which acts only     *)
(* when landing pads are disabled) and simplify::remove_dead_blocks (which *)
(* removes blocks no execution reaches) are left out, here and in the drop *)
(* shim.                                                                   *)
(***************************************************************************)
\* Lines 790-796: poison the generator when it unwinds.
PoisonOnUnwind(m) ==
    [m EXCEPT !.basic_blocks =
        [i \in DOMAIN @ |->
            IF @[i].terminator.kind = "Resume"
            THEN [@[i] EXCEPT !.statements = Append(@, set_discr(POISONED))]
            ELSE @[i]]]

\* Seeded fault: the two panic blocks change places.
ResumeCasesSwapped(cases, returned_block, poisoned_block) ==
    <<[state |-> UNRESUMED, block |-> START_BLOCK],
      [state |-> RETURNED, block |-> poisoned_block],
      [state |-> POISONED, block |-> returned_block]>> \o cases

\* Seeded fault: the poisoned state is left to the default arm.
ResumeCasesNoPoisoned(cases, returned_block, poisoned_block) ==
    <<[state |-> UNRESUMED, block |-> START_BLOCK],
      [state |-> RETURNED, block |-> returned_block]>> \o cases

\* Lines 805-810: the three reserved states ahead of the suspension points.
ResumeCases(cases, returned_block, poisoned_block) ==
    <<[state |-> UNRESUMED, block |-> START_BLOCK],
      [state |-> RETURNED, block |-> returned_block],
      [state |-> POISONED, block |-> poisoned_block]>> \o cases

create_generator_resume_function(tv, m) ==
    LET poisoned == PoisonOnUnwind(m)
        c == create_cases(poisoned, tv, "resume")
        p1 == insert_panic_block(c.mir, "GeneratorResumedAfterReturn")
        p2 == insert_panic_block(p1.mir, "GeneratorResumedAfterPanic")
        switched == insert_switch(p2.mir, ResumeCases(c.cases, p1.block, p2.block),
                                  Unreachable)
        indirect == make_generator_state_argument_indirect(switched)
    IN  [failed |-> SelfArgVisited(switched),
         mir |-> make_generator_state_argument_pinned(indirect)]

(***************************************************************************)
(* The inputs of run_pass: a body, the upvar types, the witness of the     *)
(* interior types and the movability of the generator type.                *)
(*                                                                         *)
(* Locals of an input body: _0 the return place, _1 the generator          *)
(* argument, _2 a user variable, _3 a compiler temporary.  Upvar 0 is      *)
(* read through the generator argument as (_1).0.                          *)
(***************************************************************************)
InputDecls ==
    <<LocalDecl("R", FALSE), LocalDecl("G", FALSE),
      LocalDecl("A", FALSE), LocalDecl("B", TRUE)>>

InputUpvars == <<"U">>

upvar_place == Project(self_place, <<Field(0)>>)

Body(blocks, yield_ty) ==
    [basic_blocks |-> blocks, local_decls |-> InputDecls, yield_ty |-> yield_ty,
     generator_drop |-> None, generator_layout |-> None, arg_count |-> 1]

Input(blocks, yield_ty, interior, movable, mir_emit_retag) ==
    [mir |-> Body(blocks, yield_ty), upvars |-> InputUpvars,
     interior |-> interior, movable |-> movable,
     mir_emit_retag |-> mir_emit_retag]

\* Control-flow inputs: n blocks without statements; block i continues at
\* block i + 1 (cyclically) and unwinds or drops to the last block.
ControlTerminators(i, n) ==
    LET next == (i + 1) % n
        last == n - 1
    IN  {Return, Goto(next), Resume, GeneratorDrop,
         Yield(<<>>, next, None), Yield(<<>>, next, Some(last)),
         Call(next, None), Call(next, Some(last))}

ControlBodies(n) ==
    {[i \in 1 .. n |-> BasicBlockData(<<>>, t[i], t[i].kind = "Resume")]
     : t \in {f \in [1 .. n -> UNION {ControlTerminators(i, n) : i \in 0 .. n - 1}]
                 : \A i \in 1 .. n : f[i] \in ControlTerminators(i - 1, n)}}

ControlInputs ==
    {Input(b, Some("Y"), {"A", "B"}, TRUE, FALSE) : b \in ControlBodies(MaxBlocks)}

\* Data-flow inputs: n blocks in a chain ending in a Return, each with one
\* of the statement lists below: y = f(x) in fresh storage; the result
\* g(x, y) and the end of y's storage; a borrow of y; a temporary set from
\* x; the result x[temporary].
DataStatements ==
    {<<StorageLive(2), Assign(Local(2), "Use", <<upvar_place>>, 0)>>,
     <<Assign(Local(RETURN_PLACE), "Use", <<upvar_place, Local(2)>>, 0),
       StorageDead(2)>>,
     <<Assign(Local(3), "Ref", <<Local(2)>>, 0)>>,
     <<Assign(Local(RETURN_PLACE), "Use",
              <<Project(upvar_place, <<Index(3)>>)>>, 0)>>}

DataTerminators(i, n) ==
    IF i = n - 1 THEN {Return, Drop(Local(3), 0, None)}
    ELSE {Yield(<<Local(2)>>, i + 1, None),
          Yield(<<Local(2)>>, i + 1, Some(n - 1)),
          Drop(Local(2), i + 1, None)}

DataBodies(n) ==
    {[i \in 1 .. n |-> BasicBlockData(s[i], t[i], FALSE)]
     : s \in [1 .. n -> DataStatements],
       t \in {f \in [1 .. n -> UNION {DataTerminators(i, n) : i \in 0 .. n - 1}]
                 : \A i \in 1 .. n : f[i] \in DataTerminators(i - 1, n)}}

\* The generator types and session options tried with the data-flow
\* bodies: movable or not, with a witness that knows the type of _2 or
\* not, with -Z mir-emit-retag or not.
GeneratorTypes ==
    {[interior |-> {"A", "B"}, movable |-> TRUE, mir_emit_retag |-> FALSE],
     [interior |-> {"A", "B"}, movable |-> FALSE, mir_emit_retag |-> FALSE],
     [interior |-> {}, movable |-> TRUE, mir_emit_retag |-> FALSE],
     [interior |-> {"A", "B"}, movable |-> TRUE, mir_emit_retag |-> TRUE]}

DataInputs ==
    {Input(b, Some("Y"), g.interior, g.movable, g.mir_emit_retag)
     : b \in DataBodies(MaxDataBlocks), g \in GeneratorTypes}

\* Bodies that are not generators: no yield type.
PlainInputs ==
    {Input(<<BasicBlockData(s, Return, FALSE)>>, None, {}, TRUE, FALSE)
     : s \in DataStatements}

Inputs == ControlInputs \cup DataInputs \cup PlainInputs

(***************************************************************************)
(* The run-time view of the lowered generator.                             *)
(***************************************************************************)
Idle ==
    [kind |-> "none", status |-> "idle", pc |-> 0, entry |-> 0, trace |-> {},
     dropped |-> {}, touched |-> {}, origin |-> None, msg |-> "", ret |-> None]

EmptyVisitor ==
    [remap |-> <<>>, storage_liveness |-> <<>>, suspension_points |-> <<>>,
     new_ret_local |-> 0]

Init ==
    /\ input \in Inputs
    /\ mir = input.mir
    /\ transform = EmptyVisitor
    /\ layout = None
    /\ drop_clean = None
    /\ visit_bb = 0
    /\ phase = "run_pass"
    /\ ice = ""
    /\ discr = UNRESUMED
    /\ call = Idle

Abort(message) ==
    /\ phase' = "aborted"
    /\ ice' = message

\* Lines 901-908: what run_pass does first with a body: it returns when the
\* body has no yield type, fails its assertion when a drop shim is attached,
\* and transforms the body otherwise.
EntryOf(m) ==
    IF m.yield_ty = None THEN "return"
    ELSE IF m.generator_drop # None THEN "assert"
    ELSE "transform"

\* Seeded fault: the yield type of the lowered body is kept.
UpdateMirKeepsYield(m, generator_layout) ==
    [m EXCEPT !.arg_count = 1, !.generator_layout = generator_layout]

\* Lines 966-970: the body is no generator body any more.
UpdateMir(m, generator_layout) ==
    [m EXCEPT !.yield_ty = None, !.arg_count = 1,
              !.generator_layout = generator_layout]

(***************************************************************************)
(* run_pass, one action per step of lines 897-998.                         *)
(***************************************************************************)
\* Lines 901-937: only generators are transformed; the return place is
\* renamed.
RunPass ==
    /\ IF EntryOf(mir) = "return"
       THEN /\ phase' = "done"
            /\ UNCHANGED <<mir, transform, ice>>
       ELSE IF EntryOf(mir) = "assert"
       THEN /\ Abort("assertion failed: mir.generator_drop.is_none()")
            /\ UNCHANGED <<mir, transform>>
       ELSE LET r == replace_result_variable("GeneratorState", mir)
            IN  /\ mir' = r.mir
                /\ transform' = [transform EXCEPT !.new_ret_local = r.new_ret_local]
                /\ phase' = "compute_layout"
                /\ ice' = ice
    /\ UNCHANGED <<input, layout, drop_clean, visit_bb, discr, call>>

\* The pass is run on an input body.
RunPassEntry == phase = "run_pass" /\ RunPass

\* Lines 942-963.
ComputeLayout ==
    /\ phase = "compute_layout"
    /\ LET r == compute_layout(input.upvars, input.interior, input.movable, mir)
       IN  IF r.bug
           THEN /\ Abort("Broken MIR: generator contains type in MIR")
                /\ UNCHANGED <<mir, transform, layout>>
           ELSE /\ mir' = r.mir
                /\ transform' = [transform EXCEPT
                                    !.remap = r.remap,
                                    !.storage_liveness = r.storage_liveness]
                /\ layout' = Some(r.layout)
                /\ phase' = "transform"
                /\ ice' = ice
    /\ UNCHANGED <<input, drop_clean, visit_bb, discr, call>>

\* Line 964, transform.visit_mir: one block per step, in block order.
VisitBasicBlock ==
    /\ phase = "transform"
    /\ visit_bb < Len(mir.basic_blocks)
    /\ LET r == visit_basic_block_data(transform, visit_bb, BB(mir, visit_bb))
       IN  IF r.failed
           THEN /\ Abort("assertion failed: remap.get(local) == None")
                /\ UNCHANGED <<mir, transform, visit_bb>>
           ELSE /\ mir' = [mir EXCEPT !.basic_blocks[visit_bb + 1] = r.data]
                /\ transform' = r.tv
                /\ visit_bb' = visit_bb + 1
                /\ phase' = IF visit_bb + 1 = Len(mir.basic_blocks)
                            THEN "transformed" ELSE "transform"
                /\ ice' = ice
    /\ UNCHANGED <<input, layout, drop_clean, discr, call>>

\* Lines 966-975.
InsertCleanDrop ==
    /\ phase = "transformed"
    /\ LET r == insert_clean_drop(UpdateMir(mir, layout))
       IN  /\ mir' = r.mir
           /\ drop_clean' = Some(r.block)
    /\ phase' = "elaborate"
    /\ UNCHANGED <<input, transform, layout, visit_bb, ice, discr, call>>

\* Line 982.
ElaborateGeneratorDrops ==
    /\ phase = "elaborate"
    /\ mir' = elaborate_generator_drops(mir, input.upvars)
    /\ phase' = "drop_shim"
    /\ UNCHANGED <<input, transform, layout, drop_clean, visit_bb, ice, discr, call>>

\* Lines 987-995.
CreateGeneratorDropShim ==
    /\ phase = "drop_shim"
    /\ LET r == create_generator_drop_shim(transform, mir, drop_clean[1],
                                           input.mir_emit_retag)
       IN  IF r.failed
           THEN /\ Abort("assertion failed: local != self_arg()")
                /\ mir' = mir
           ELSE /\ mir' = AttachDropShim(mir, r.mir)
                /\ phase' = "resume_function"
                /\ ice' = ice
    /\ UNCHANGED <<input, transform, layout, drop_clean, visit_bb, discr, call>>

\* Line 998.
CreateGeneratorResumeFunction ==
    /\ phase = "resume_function"
    /\ LET r == create_generator_resume_function(transform, mir)
       IN  IF r.failed
           THEN /\ Abort("assertion failed: local != self_arg()")
                /\ mir' = mir
           ELSE /\ mir' = r.mir
                /\ phase' = "lowered"
                /\ ice' = ice
    /\ UNCHANGED <<input, transform, layout, drop_clean, visit_bb, discr, call>>

\* The pass is run a second time, on the body it has lowered.
RunPassAgain == phase = "lowered" /\ call = Idle /\ RunPass

(***************************************************************************)
(* Execution of the generated functions.  A call runs one block per step:  *)
(* the statements of the block, then its terminator.  Only the state field *)
(* of the generator struct carries a value; a Call or a Drop either        *)
(* continues at its target or raises an unwind.                            *)
(***************************************************************************)
\* The function a call runs: the resume function is the lowered body, the
\* drop shim is attached to it.
Function(kind) == IF kind = "resume" THEN mir ELSE mir.generator_drop[1]

\* The blocks of the input body, at their position after insert_switch.
BodyBlocks == 1 .. Len(input.mir.basic_blocks)

\* The remapped fields of the generator struct a place goes through.
RemappedFields(p) ==
    IF p.local = SelfArg
    THEN {p.proj[j + 1].i : j \in {i \in 1 .. Len(p.proj) - 1 : p.proj[i].k = "Downcast"}}
    ELSE {}

OperandFields(ops) == UNION {RemappedFields(ops[i]) : i \in DOMAIN ops}

ExecStatement(s, st) ==
    IF s.kind = "SetDiscriminant"
    THEN IF s.place[1].local = SelfArg THEN [st EXCEPT !.discr = s.variant] ELSE st
    ELSE IF s.kind = "Assign"
    THEN LET st1 == [st EXCEPT !.touched = @ \cup OperandFields(s.place)
                                            \cup OperandFields(s.ops)]
         IN  IF s.rk = "Discriminant" /\ s.ops[1].local = SelfArg
             THEN [st1 EXCEPT !.regs = (s.place[1].local :> st.discr) @@ @]
             ELSE IF s.rk = "Aggregate" /\ s.place[1] = Local(RETURN_PLACE)
             THEN [st1 EXCEPT !.ret = Some(s.variant)]
             ELSE st1
    ELSE st

RECURSIVE ExecStatements(_, _)
ExecStatements(statements, st) ==
    IF statements = <<>> THEN st
    ELSE ExecStatements(Tail(statements), ExecStatement(Head(statements), st))

Outcome(status, pc, origin, dropped, msg) ==
    [status |-> status, pc |-> pc, origin |-> origin, dropped |-> dropped,
     msg |-> msg]

\* The terminator of block b raises an unwind: it continues in the cleanup
\* block when there is one and leaves the function otherwise.
RaiseUnwind(t, b, dropped, msg) ==
    IF t.unwind = None THEN Outcome("unwind", b, Some(b), dropped, msg)
    ELSE Outcome("running", t.unwind[1], Some(b), dropped, msg)

\* SwitchInt: the target of the first value equal to v, the last target
\* (otherwise) when there is none.
SwitchTarget(t, v) ==
    LET hits == {i \in DOMAIN t.values : t.values[i] = v}
    IN  IF hits = {} THEN t.targets[Len(t.targets)]
        ELSE t.targets[CHOOSE i \in hits : \A j \in hits : i <= j]

\* The values a SwitchInt may read: the value stored in its operand, any
\* value if the operand was never written.
SwitchValues(t, st) ==
    IF t.place[1].local \in DOMAIN st.regs THEN {st.regs[t.place[1].local]}
    ELSE 0 .. Len(t.targets)

Outcomes(t, b, st) ==
    CASE t.kind = "Goto" -> {Outcome("running", t.targets[1], None, {}, "")}
      [] t.kind = "SwitchInt" ->
            {Outcome("running", SwitchTarget(t, v), None, {}, "")
             : v \in SwitchValues(t, st)}
      [] t.kind = "Return" -> {Outcome("return", b, None, {}, "")}
      [] t.kind = "Resume" -> {Outcome("unwind", b, None, {}, "")}
      [] t.kind = "Call" ->
            {Outcome("running", t.targets[1], None, {}, ""),
             RaiseUnwind(t, b, {}, "")}
      [] t.kind = "Drop" ->
            {Outcome("running", t.targets[1], None, {t.place[1]}, ""),
             RaiseUnwind(t, b, {t.place[1]}, "")}
      [] t.kind = "Assert" -> {RaiseUnwind(t, b, {}, t.msg)}
      [] OTHER -> {Outcome(t.kind, b, None, {}, "")}

StartCall(kind) ==
    /\ phase = "lowered"
    /\ call.status # "running"
    /\ call' = [Idle EXCEPT !.kind = kind, !.status = "running",
                            !.pc = START_BLOCK, !.entry = discr]
    /\ UNCHANGED <<input, mir, transform, layout, drop_clean, visit_bb, phase,
                   ice, discr>>

\* Generator::resume is called.
CallResume == StartCall("resume")

\* The drop glue of the generator is called.
CallDrop == StartCall("drop")

\* The call in flight executes its current block.
Step ==
    /\ phase = "lowered"
    /\ call.status = "running"
    /\ LET d == BB(Function(call.kind), call.pc)
           st == ExecStatements(d.statements,
                                [discr |-> discr, regs |-> <<>>,
                                 touched |-> call.touched, ret |-> call.ret])
       IN  \E o \in Outcomes(d.terminator, call.pc, st) :
              /\ discr' = st.discr
              /\ call' = [call EXCEPT
                             !.status = o.status,
                             !.pc = o.pc,
                             !.trace = @ \cup {call.pc},
                             !.touched = st.touched \cup OperandFields(d.terminator.place),
                             !.dropped = @ \cup o.dropped,
                             !.origin = IF o.origin = None THEN @ ELSE o.origin,
                             !.msg = IF o.msg = "" THEN @ ELSE o.msg,
                             !.ret = st.ret]
    /\ UNCHANGED <<input, mir, transform, layout, drop_clean, visit_bb, phase, ice>>

Next ==
    \/ RunPassEntry
    \/ ComputeLayout
    \/ VisitBasicBlock
    \/ InsertCleanDrop
    \/ ElaborateGeneratorDrops
    \/ CreateGeneratorDropShim
    \/ CreateGeneratorResumeFunction
    \/ RunPassAgain
    \/ CallResume
    \/ CallDrop
    \/ Step

Spec == Init /\ [][Next]_vars

(***************************************************************************)
(* Vocabulary of the properties.                                           *)
(***************************************************************************)
Lowered == phase = "lowered"

ResumeFunction == mir
DropShim == mir.generator_drop[1]

\* The call in flight has executed the dispatch block and nothing else.
Dispatched == call.status = "running" /\ call.trace = {START_BLOCK}

\* The call has ended.
Finished == call.status \notin {"idle", "running"}

\* The panic blocks of the resume function carrying a message.
PanicBlocks(msg) ==
    {b \in Blocks(ResumeFunction) :
        /\ BB(ResumeFunction, b).terminator.kind = "Assert"
        /\ BB(ResumeFunction, b).terminator.msg = msg}

\* The suspension point a state of 3 or more denotes.
PointOf(state) == transform.suspension_points[state - FirstSuspendState + 1]

(***************************************************************************)
(* C1: every resume call that leaves the function by unwinding from the    *)
(* body (not from one of the two generated panics) has set the state to    *)
(* POISONED by the time the unwind reaches the caller.                     *)
(***************************************************************************)
C1_UnwindPoisons ==
    (Lowered /\ call.kind = "resume" /\ call.status = "unwind" /\ call.msg = "")
        => discr = POISONED

(***************************************************************************)
(* C2: the dispatch of the resume function sends state 0 to the original   *)
(* entry block, state 1 to the "resumed after return" panic, state 2 to    *)
(* the "resumed after panic" panic and state 3 + i to a jump block that    *)
(* goes to the resume target of the i-th suspension point; a call entered  *)
(* in state 1 or 2 panics without executing a block of the body.           *)
(***************************************************************************)
C2_ResumeDispatch ==
    (Lowered /\ call.kind = "resume") =>
        /\ Dispatched =>
              /\ call.entry = UNRESUMED => call.pc = START_BLOCK + 1
              /\ call.entry = RETURNED =>
                    call.pc \in PanicBlocks("GeneratorResumedAfterReturn")
              /\ call.entry = POISONED =>
                    call.pc \in PanicBlocks("GeneratorResumedAfterPanic")
              /\ call.entry >= FirstSuspendState =>
                    /\ PointOf(call.entry).state = call.entry
                    /\ call.pc \notin BodyBlocks
                    /\ BB(ResumeFunction, call.pc).terminator
                           = Goto(PointOf(call.entry).resume + 1)
        /\ call.entry \in {RETURNED, POISONED} =>
              /\ call.trace \cap BodyBlocks = {}
              /\ discr = call.entry
              /\ Finished =>
                    /\ call.status = "unwind"
                    /\ call.msg = IF call.entry = RETURNED
                                  THEN "GeneratorResumedAfterReturn"
                                  ELSE "GeneratorResumedAfterPanic"

\* A resume call entered at the second suspension point is about to run
\* its jump block.
C2_Witness ==
    /\ Lowered /\ call.kind = "resume" /\ Dispatched
    /\ call.entry = FirstSuspendState + 1

(***************************************************************************)
(* C3: the round trip.  The body captures x, computes y = f(x), yields     *)
(* once and returns g(x, y) after the resumption.  Its layout has exactly  *)
(* one remapped field, y, in variant 3; the resume from state 0 runs the   *)
(* first block, yields and leaves state 3; the resume from state 3 runs    *)
(* the resume target, completes and leaves state 1; the resume from state  *)
(* 1 panics and runs no block of the body.                                 *)
(***************************************************************************)
RoundTripInput ==
    Input(<<BasicBlockData(<<StorageLive(2),
                             Assign(Local(2), "Use", <<upvar_place>>, 0)>>,
                           Yield(<<Local(2)>>, 1, None), FALSE),
            BasicBlockData(<<Assign(Local(RETURN_PLACE), "Use",
                                    <<upvar_place, Local(2)>>, 0),
                             StorageDead(2)>>,
                           Return, FALSE)>>,
          Some("Y"), {"A", "B"}, TRUE, FALSE)

\* The blocks of the resume function that are not the dispatch block or a
\* block of the body.
JumpBlocksTo(target) ==
    {b \in Blocks(ResumeFunction) \ ({START_BLOCK} \cup BodyBlocks) :
        BB(ResumeFunction, b).terminator = Goto(target)}

C3_RoundTrip ==
    input = RoundTripInput =>
        /\ phase # "aborted"
        /\ phase \notin {"run_pass", "compute_layout"} =>
              /\ DOMAIN transform.remap = {2}
              /\ transform.remap[2].variant = 3
              /\ transform.remap[2].idx = 0
              /\ layout[1].field_tys = <<"A">>
        /\ (Lowered /\ call.kind = "resume" /\ Finished) =>
              /\ call.entry \in {UNRESUMED, RETURNED, FirstSuspendState}
              /\ call.entry = UNRESUMED =>
                    /\ call.status = "return" /\ call.ret = Some(0)
                    /\ discr = FirstSuspendState
                    /\ call.trace = {START_BLOCK, 1}
              /\ call.entry = FirstSuspendState =>
                    /\ call.status = "return" /\ call.ret = Some(1)
                    /\ discr = RETURNED
                    /\ \E j \in JumpBlocksTo(2) : call.trace = {START_BLOCK, j, 2}
                    /\ call.touched = {0}
              /\ call.entry = RETURNED =>
                    /\ call.status = "unwind"
                    /\ call.msg = "GeneratorResumedAfterReturn"
                    /\ discr = RETURNED
                    /\ call.trace \cap BodyBlocks = {}

\* The third resume of the round trip has panicked.
C3_Witness ==
    /\ input = RoundTripInput /\ Lowered
    /\ call.kind = "resume" /\ call.entry = RETURNED /\ call.status = "unwind"

(***************************************************************************)
(* C4: the drop shim called in state 0 goes to the clean-drop block, drops *)
(* the upvar fields and nothing else and returns; it touches no remapped   *)
(* field, runs no block of the body and leaves the state alone.            *)
(***************************************************************************)
UpvarFields ==
    {Project(self_place, <<Deref, Field(i - 1)>>) : i \in DOMAIN input.upvars}

DropDefault ==
    LET t == BB(DropShim, START_BLOCK).terminator IN t.targets[Len(t.targets)]

C5_DropDispatch ==
    (Lowered /\ call.kind = "drop" /\ call.entry # UNRESUMED) =>
        /\ BB(DropShim, DropDefault) = BasicBlockData(<<>>, Return, FALSE)
        /\ call.entry \in {RETURNED, POISONED} =>
              /\ Dispatched => call.pc = DropDefault
              /\ call.trace \subseteq {START_BLOCK, DropDefault}
              /\ call.dropped = {} /\ call.touched = {}
              /\ discr = call.entry
              /\ Finished => call.status = "return"
        /\ (call.entry >= FirstSuspendState /\ Dispatched) =>
              IF PointOf(call.entry).drop = None
              THEN call.pc = DropDefault
              ELSE /\ call.pc \notin BodyBlocks \cup {DropDefault}
                   /\ BB(DropShim, call.pc).terminator
                          = Goto(PointOf(call.entry).drop[1] + 1)

\* The drop shim was entered at a suspension point without a drop target
\* while another suspension point has one.
C5_Witness ==
    /\ Lowered /\ call.kind = "drop" /\ Dispatched
    /\ call.entry >= FirstSuspendState
    /\ PointOf(call.entry).drop = None
    /\ \E i \in DOMAIN transform.suspension_points :
          transform.suspension_points[i].drop # None

(***************************************************************************)
(* C6: while and after the blocks are visited, the suspension points       *)
(* recorded are exactly those of the Yield terminators of the blocks       *)
(* visited so far, one per Yield, in increasing block order, with states   *)
(* 3, 4, ... and no gap or repeat; each point is a function of the input.  *)
(***************************************************************************)
\* The body the TransformVisitor starts from.
Renamed == replace_result_variable("GeneratorState", input.mir).mir

\* The blocks visited so far.
Visited == IF phase \in {"run_pass", "compute_layout"} THEN {} ELSE 0 .. visit_bb - 1

YieldBlocks(blocks) ==
    {b \in blocks : BB(input.mir, b).terminator.kind = "Yield"}

\* The position of a suspending block among the suspending blocks.
YieldRank(b) == Cardinality(YieldBlocks(0 .. b))

C6_DenseStates ==
    input.mir.yield_ty # None =>
        LET points == transform.suspension_points
            yields == YieldBlocks(Visited)
            live == locals_live_across_suspend_points(Renamed, input.movable)
        IN  /\ Len(points) = Cardinality(yields)
            /\ \A i \in DOMAIN points : points[i].state = FirstSuspendState + i - 1
            /\ \A b \in yields :
                  /\ points[YieldRank(b)].resume = BB(input.mir, b).terminator.targets[1]
                  /\ points[YieldRank(b)].drop = BB(input.mir, b).terminator.unwind
                  /\ phase = "transformed" =>
                         points[YieldRank(b)].storage_liveness =
                             live.storage_liveness[b]

\* A body with three suspending blocks has been visited.
C6_Witness ==
    /\ phase = "transformed"
    /\ Len(transform.suspension_points) = 3
    /\ Cardinality(YieldBlocks(Blocks(input.mir))) = 3

(***************************************************************************)
(* C7: after the blocks are visited no block ends in Yield; a block that   *)
(* ended in Yield or Return ends in Return, preceded by the write of the   *)
(* result and the write of the state.  As stated: every other terminator   *)
(* is unchanged.                                                           *)
(***************************************************************************)
\* The last two statements of a rewritten exit block.
ExitShape(data) ==
    LET n == Len(data.statements)
    IN  /\ data.terminator = Return
        /\ n >= 2
        /\ data.statements[n - 1].kind = "Assign"
        /\ data.statements[n - 1].place = <<Local(RETURN_PLACE)>>
        /\ data.statements[n - 1].rk = "Aggregate"
        /\ data.statements[n].kind = "SetDiscriminant"
        /\ data.statements[n].place = <<self_place>>

C7_OtherTerminatorsUnchanged ==
    phase = "transformed" =>
        \A b \in Blocks(mir) :
            /\ BB(mir, b).terminator.kind # "Yield"
            /\ IF BB(Renamed, b).terminator.kind \in {"Yield", "Return"}
               THEN ExitShape(BB(mir, b))
               ELSE BB(mir, b).terminator = BB(Renamed, b).terminator

(***************************************************************************)
(* C7, amended: ... every other terminator keeps its kind, its successors  *)
(* and its unwind block; a place in it that is based on a remapped local   *)
(* is the same place based on the field of the generator struct, and any   *)
(* other place in it is unchanged.                                         *)
(***************************************************************************)
\* A place after the rewrite, spelled out without the visitor.
FieldPlace(p) ==
    IF p.local \in DOMAIN transform.remap
    THEN [local |-> SelfArg,
          proj |-> <<Downcast(transform.remap[p.local].variant),
                     Field(transform.remap[p.local].idx)>> \o p.proj]
    ELSE p

C7_ExitShape ==
    phase = "transformed" =>
        /\ Len(mir.basic_blocks) = Len(Renamed.basic_blocks)
        /\ \A b \in Blocks(mir) :
            LET old == BB(Renamed, b).terminator
                new == BB(mir, b).terminator
            IN  /\ new.kind # "Yield"
                /\ IF old.kind \in {"Yield", "Return"}
                   THEN ExitShape(BB(mir, b))
                   ELSE /\ new.kind = old.kind
                        /\ new.targets = old.targets
                        /\ new.unwind = old.unwind
                        /\ new.values = old.values
                        /\ new.msg = old.msg
                        /\ new.place = [j \in DOMAIN old.place |-> FieldPlace(old.place[j])]

\* A body with a Yield and a Drop of a remapped local has been visited.
C7_Witness ==
    /\ phase = "transformed"
    /\ \E b \in Blocks(mir) : BB(Renamed, b).terminator.kind = "Yield"
    /\ \E b \in Blocks(mir) :
          /\ BB(Renamed, b).terminator.kind = "Drop"
          /\ BB(Renamed, b).terminator.place[1].local \in DOMAIN transform.remap

(***************************************************************************)
(* C8, as stated: for a generator body without a Yield the remap is empty, *)
(* the visited blocks that do not end in Return are those of the renamed   *)
(* body, and the dispatch of the generated functions has no case arm, only *)
(* the default.  (The rewrite of the Return blocks is read as part of the  *)
(* renaming of the return slot.)                                           *)
(***************************************************************************)
ZeroSuspend ==
    /\ input.mir.yield_ty # None
    /\ YieldBlocks(Blocks(input.mir)) = {}

ResumeSwitch == BB(ResumeFunction, START_BLOCK).terminator
DropSwitch == BB(DropShim, START_BLOCK).terminator

AfterReturn == PanicBlocks("GeneratorResumedAfterReturn")
AfterPanic == PanicBlocks("GeneratorResumedAfterPanic")
ResumeDefault == ResumeSwitch.targets[Len(ResumeSwitch.targets)]

\* The call is in a generated panic block or has left through one.
InPanic == call.pc \in AfterReturn \cup AfterPanic \/ call.msg # ""

PanicMatchesEntry ==
    /\ call.entry \in {RETURNED, POISONED}
    /\ call.entry = RETURNED => call.pc \in AfterReturn
    /\ call.entry = POISONED => call.pc \in AfterPanic
    /\ Finished => /\ call.status = "unwind"
                   /\ call.msg = BB(ResumeFunction, call.pc).terminator.msg

C9_PanicsViaDefaultArm ==
    (Lowered /\ call.kind = "resume" /\ InPanic) =>
        /\ call.pc = ResumeDefault
        /\ PanicMatchesEntry
        /\ AfterReturn \cap AfterPanic = {}

(***************************************************************************)
(* C9, amended: a resume call is in a generated panic block only through   *)
(* the explicit arms of the dispatch for the values 1 and 2 (the default   *)
(* arm is an unreachable block and no panic), only when it was entered in  *)
(* state 1 or 2 respectively, and the two panics carry different messages. *)
(***************************************************************************)
C9_PanicsViaReservedArms ==
    (Lowered /\ call.kind = "resume") =>
        /\ Cardinality(AfterReturn) = 1 /\ Cardinality(AfterPanic) = 1
        /\ AfterReturn \cap AfterPanic = {}
        /\ ResumeDefault \notin AfterReturn \cup AfterPanic
        /\ BB(ResumeFunction, ResumeDefault).terminator = Unreachable
        /\ \A i \in DOMAIN ResumeSwitch.values :
              /\ ResumeSwitch.targets[i] \in AfterReturn
                     <=> ResumeSwitch.values[i] = RETURNED
              /\ ResumeSwitch.targets[i] \in AfterPanic
                     <=> ResumeSwitch.values[i] = POISONED
        /\ \A b \in Blocks(ResumeFunction) \ {START_BLOCK} :
              Successors(BB(ResumeFunction, b).terminator)
                  \cap (AfterReturn \cup AfterPanic) \subseteq {b}
        /\ InPanic => PanicMatchesEntry

\* A resume call of a poisoned generator has panicked.
C9_Witness ==
    /\ Lowered /\ call.kind = "resume" /\ call.entry = POISONED
    /\ call.status = "unwind" /\ call.msg = "GeneratorResumedAfterPanic"

(***************************************************************************)
(* C10, as stated: the visit of a block aborts the pass exactly when the   *)
(* block accesses a local that is absent from the remap.                   *)
(***************************************************************************)
\* The places of a block: those of its statements and of its terminator.
BlockPlaces(d) ==
    UNION {SeqToSet(d.statements[i].place) \cup SeqToSet(d.statements[i].ops)
           : i \in DOMAIN d.statements}
    \cup SeqToSet(d.terminator.place)

\* The locals a block accesses.
BlockLocals(d) ==
    {d.statements[i].local
     : i \in {j \in DOMAIN d.statements
                 : d.statements[j].kind \in {"StorageLive", "StorageDead"}}}
    \cup UNION {PlaceLocals(p) : p \in BlockPlaces(d)}

C10_AbsentIsFatal ==
    [][phase = "transform" =>
          (phase' = "aborted"
              <=> BlockLocals(BB(mir, visit_bb)) \ DOMAIN transform.remap # {})]_vars

(***************************************************************************)
(* C10, amended: the visit of a block aborts the pass exactly when a local *)
(* that is present in the remap is the index of an Index projection in the *)
(* block; otherwise the storage markers of remapped locals are removed,    *)
(* every place based on a remapped local becomes the place based on the    *)
(* field of the generator struct, and every other place is unchanged.      *)
(***************************************************************************)
IndexesRemapped(d) ==
    \E p \in BlockPlaces(d) : IndexLocals(p) \cap DOMAIN transform.remap # {}

KeptStatements(d) ==
    SelectSeq(d.statements,
              LAMBDA s : ~(s.kind \in {"StorageLive", "StorageDead"}
                           /\ s.local \in DOMAIN transform.remap))

C10_RemappedIndexIsFatal ==
    [][phase = "transform" =>
          LET d == BB(mir, visit_bb)
              kept == KeptStatements(d)
              new == mir'.basic_blocks[visit_bb + 1].statements
          IN  IF IndexesRemapped(d)
              THEN /\ phase' = "aborted"
                   /\ ice' = "assertion failed: remap.get(local) == None"
                   /\ mir' = mir
              ELSE /\ phase' \in {"transform", "transformed"}
                   /\ Len(new) >= Len(kept)
                   /\ \A i \in DOMAIN kept :
                         /\ new[i].kind = kept[i].kind
                         /\ new[i].local = kept[i].local
                         /\ new[i].place = [j \in DOMAIN kept[i].place |->
                                               FieldPlace(kept[i].place[j])]
                         /\ new[i].ops = [j \in DOMAIN kept[i].ops |->
                                             FieldPlace(kept[i].ops[j])]]_vars

\* The pass has aborted on the assertion of visit_local.
C10_Witness ==
    /\ phase = "aborted"
    /\ ice = "assertion failed: remap.get(local) == None"
    /\ IndexesRemapped(BB(mir, visit_bb))

(***************************************************************************)
(* C11, as stated: every key of the remap is a local that is live across a *)
(* suspension point and is not a compiler temporary; a compiler temporary  *)
(* that is live across a suspension point has no entry in the remap.       *)
(***************************************************************************)
\* The locals compute_layout receives as live across a suspension point.
LiveSet == locals_live_across_suspend_points(Renamed, input.movable).live_locals

\* The declaration of a local before compute_layout replaces it by a dummy.
DeclOf(l) == Renamed.local_decls[l + 1]

\* compute_layout has returned and the remap is in the visitor.
LaidOut == phase \in {"transform", "transformed"}

\* The remap is not changed while the blocks are visited: what holds of it
\* when the layout has just been built and when all blocks are visited
\* holds in between.
LayoutBuilt ==
    \/ phase = "transform" /\ visit_bb = 0
    \/ phase = "transformed"

C11_NoInternalKeys ==
    LaidOut =>
        /\ \A l \in DOMAIN transform.remap : l \in LiveSet /\ ~DeclOf(l).internal
        /\ \A l \in LiveSet : DeclOf(l).internal => l \notin DOMAIN transform.remap

(***************************************************************************)
(* C11, amended: the keys of the remap are exactly the locals that are     *)
(* live across a suspension point, compiler temporaries included: such a   *)
(* temporary gets an entry and a field of its own type like any other      *)
(* live local (it is exempt only from the check of its type).              *)
(***************************************************************************)
C11_KeysAreLiveSet ==
    LayoutBuilt =>
        /\ DOMAIN transform.remap = LiveSet
        /\ Len(layout[1].field_tys) = Cardinality(LiveSet)
        /\ \A l \in LiveSet :
              /\ transform.remap[l].idx < Len(layout[1].field_tys)
              /\ layout[1].field_tys[transform.remap[l].idx + 1] = DeclOf(l).ty
              /\ transform.remap[l].ty = DeclOf(l).ty

\* The blocks were visited with a compiler temporary and a user variable in
\* the remap.
C11_Witness ==
    /\ phase = "transformed"
    /\ \E l \in DOMAIN transform.remap : DeclOf(l).internal
    /\ \E l \in DOMAIN transform.remap : ~DeclOf(l).internal

(***************************************************************************)
(* C12: in a block rewritten from a Yield or a Return, the statements the  *)
(* block had come first, then the write of the result to the return place  *)
(* (Yielded(v) for Yield v, Complete(v) for Return), then the write of the *)
(* state (the new suspend state, or RETURNED), which is the last statement *)
(* before the bare Return.                                                 *)
(***************************************************************************)
\* The operands of the result write of block b.
ResultOperands(b) ==
    LET t == BB(Renamed, b).terminator
        v == IF t.kind = "Yield" THEN t.place
             ELSE <<Local(transform.new_ret_local)>>
    IN  [j \in DOMAIN v |-> FieldPlace(v[j])]

C12_ResultBeforeDiscriminant ==
    LaidOut =>
        \A b \in Visited :
            BB(Renamed, b).terminator.kind \in {"Yield", "Return"} =>
                LET isYield == BB(Renamed, b).terminator.kind = "Yield"
                    kept == KeptStatements(BB(Renamed, b))
                    new == BB(mir, b).statements
                    n == Len(new)
                IN  /\ n = Len(kept) + 2
                    /\ \A i \in DOMAIN kept :
                          /\ new[i].kind = kept[i].kind
                          /\ new[i].rk = kept[i].rk
                          /\ new[i].local = kept[i].local
                    /\ new[n - 1] = Assign(Local(RETURN_PLACE), "Aggregate",
                                           ResultOperands(b),
                                           IF isYield THEN 0 ELSE 1)
                    /\ new[n] = SetDiscriminant(self_place,
                                    IF isYield
                                    THEN FirstSuspendState + YieldRank(b) - 1
                                    ELSE RETURNED)
                    /\ BB(mir, b).terminator = Return

\* A block with statements of its own that ended in Yield, and one that
\* ended in Return, have been rewritten.
C12_Witness ==
    /\ phase = "transformed"
    /\ \E b \in Blocks(Renamed) :
          /\ BB(Renamed, b).terminator.kind = "Yield"
          /\ BB(Renamed, b).statements # <<>>
          /\ BB(Renamed, b).terminator.place # <<>>
    /\ \E b \in Blocks(Renamed) : BB(Renamed, b).terminator.kind = "Return"

(***************************************************************************)
(* C13: in the resume function and in the drop shim, the arm of a          *)
(* suspension point that has a target leads to a jump block that holds a   *)
(* StorageLive marker for local l exactly when l is in the storage         *)
(* liveness recorded for the point and is not a key of the remap, and that *)
(* ends in a Goto to the target; no marker names a remapped local.         *)
(***************************************************************************)
\* The block the dispatch of function f branches to on a state that has an
\* arm.
ArmTarget(f, state) ==
    LET sw == BB(f, START_BLOCK).terminator
    IN  sw.targets[CHOOSE i \in DOMAIN sw.values : sw.values[i] = state]

\* The locals a jump block marks as storage-live.
Marked(data) == {data.statements[i].local : i \in DOMAIN data.statements}

JumpBlockRestores(f, point, target) ==
    LET jump == BB(f, ArmTarget(f, point.state))
        restored == point.storage_liveness \ DOMAIN transform.remap
    IN  /\ \A i \in DOMAIN jump.statements : jump.statements[i].kind = "StorageLive"
        /\ Marked(jump) = restored
        /\ Len(jump.statements) = Cardinality(restored)
        /\ jump.terminator = Goto(target + 1)
        /\ ~jump.is_cleanup

C13_JumpBlockMarkers ==
    Lowered =>
        \A i \in DOMAIN transform.suspension_points :
            LET point == transform.suspension_points[i]
            IN  /\ JumpBlockRestores(ResumeFunction, point, point.resume)
                /\ point.drop # None => JumpBlockRestores(DropShim, point, point.drop[1])

\* A lowered body with a remapped local has a suspension point with a drop
\* target whose recorded storage liveness holds a local that is not
\* remapped: both of its jump blocks carry a marker.
C13_Witness ==
    /\ Lowered
    /\ DOMAIN transform.remap # {}
    /\ \E i \in DOMAIN transform.suspension_points :
          /\ transform.suspension_points[i].drop # None
          /\ transform.suspension_points[i].storage_liveness
                 \ DOMAIN transform.remap # {}

(***************************************************************************)
(* C14: the locals found live across a suspension point (the keys of the   *)
(* remap) are the union, over the blocks ending in Yield, of               *)
(* L(b) \cap (storage_live(b) \cup always_live), without the generator     *)
(* argument; L(b) is the may-live set after b for a movable generator and  *)
(* that set with the locals borrowed before the Yield for an immovable     *)
(* one; always_live are the locals no storage marker names.  For a movable *)
(* generator a local only borrowed before the Yield is not in the set.     *)
(* The three sets are spelled out over the paths of the body.              *)
(***************************************************************************)
\* The kinds of occurrence of local l in the statements of block b, in
\* order: "gen"/"kill" for the storage markers, "ref" for a borrow, "use"
\* and "def" for liveness (the operands of a statement are read before its
\* place is written).
Occurrences(b, l) ==
    LET ss == BB(Renamed, b).statements
        Of(s) ==
            IF s.kind = "StorageLive" THEN IF s.local = l THEN <<"gen">> ELSE <<>>
            ELSE IF s.kind = "StorageDead" THEN IF s.local = l THEN <<"kill">> ELSE <<>>
            ELSE IF s.kind # "Assign" THEN <<>>
            ELSE (IF s.rk = "Ref" /\ s.ops[1].local = l
                     /\ \A i \in DOMAIN s.ops[1].proj : s.ops[1].proj[i].k # "Deref"
                  THEN <<"ref">> ELSE <<>>)
                 \o (IF l \in OpsLocals(s.ops)
                        \/ (s.place[1].proj # <<>> /\ l \in PlaceLocals(s.place[1]))
                     THEN <<"use">> ELSE <<>>)
                 \o (IF s.place[1] = Local(l) THEN <<"def">> ELSE <<>>)
        RECURSIVE Flat(_)
        Flat(i) == IF i > Len(ss) THEN <<>> ELSE Of(ss[i]) \o Flat(i + 1)
    IN  Flat(1)

\* The first and the last occurrence of l in block b among the given kinds,
\* "" if there is none.
FirstOf(b, l, kinds) ==
    LET o == SelectSeq(Occurrences(b, l), LAMBDA k : k \in kinds)
    IN  IF o = <<>> THEN "" ELSE o[1]

LastOf(b, l, kinds) ==
    LET o == SelectSeq(Occurrences(b, l), LAMBDA k : k \in kinds)
    IN  IF o = <<>> THEN "" ELSE o[Len(o)]

\* Some path of the body that ends at the terminator of block b holds an
\* occurrence of kind gen of l with no occurrence of kind kill after it.
RECURSIVE ReachedBy(_, _, _, _, _)
ReachedBy(gen, kill, l, b, seen) ==
    LET last == LastOf(b, l, {gen, kill})
    IN  \/ last = gen
        \/ /\ last = ""
           /\ \E p \in Predecessors(Renamed, b) \ seen :
                  ReachedBy(gen, kill, l, p, seen \cup {p})

StorageLiveBefore(l, b) == ReachedBy("gen", "kill", l, b, {b})
ReferencedBefore(l, b) == ReachedBy("ref", "never", l, b, {b})

\* Some path of the body that starts at block b reads l before writing it.
RECURSIVE ReadFrom(_, _, _)
ReadFrom(l, b, seen) ==
    LET first == FirstOf(b, l, {"use", "def"})
    IN  \/ first = "use"
        \/ /\ first = ""
           /\ \/ l \in OpsLocals(BB(Renamed, b).terminator.place)
              \/ \E s \in Successors(BB(Renamed, b).terminator) \ seen :
                     ReadFrom(l, s, seen \cup {s})

LiveAfter(l, b) ==
    \E s \in Successors(BB(Renamed, b).terminator) : ReadFrom(l, s, {s})

AlwaysLive(l) ==
    \A b \in Blocks(Renamed) : FirstOf(b, l, {"gen", "kill"}) = ""

LiveAcross(l, b) ==
    /\ LiveAfter(l, b) \/ (~input.movable /\ ReferencedBefore(l, b))
    /\ StorageLiveBefore(l, b) \/ AlwaysLive(l)

C14_CrossSuspendLiveSet ==
    LayoutBuilt =>
        /\ DOMAIN transform.remap =
               {l \in Locals(Renamed) :
                   \E b \in YieldBlocks(Blocks(Renamed)) : LiveAcross(l, b)}
               \ {SelfArg}
        /\ input.movable =>
               \A l \in DOMAIN transform.remap :
                   \E b \in YieldBlocks(Blocks(Renamed)) : LiveAfter(l, b)

\* An immovable generator keeps a local that was borrowed before a Yield
\* and is not read after any Yield.
C14_Witness ==
    /\ phase = "transformed"
    /\ ~input.movable
    /\ \E l \in DOMAIN transform.remap :
          /\ \A b \in YieldBlocks(Blocks(Renamed)) : ~LiveAfter(l, b)
          /\ \E b \in YieldBlocks(Blocks(Renamed)) : ReferencedBefore(l, b)

(***************************************************************************)
(* C15: insert_switch on a body of k blocks puts the dispatch block at     *)
(* index 0 and the default block at index k + 1; the block formerly at     *)
(* index i is at index i + 1 with its statements, and each of its          *)
(* successor edges (unwind edges included) names the block formerly named; *)
(* the arm of case (state, target) leads to the block formerly at target,  *)
(* and the otherwise arm leads to the default block.  Stated on the two    *)
(* steps of run_pass that call insert_switch, against the body each of     *)
(* them hands to it.                                                       *)
(***************************************************************************)
\* The statement of the body as the argument adapters of the function
\* leave it.
Adapted(which, st) ==
    IF which = "drop" THEN VisitStatement(DerefArgVisitor, st)
    ELSE VisitStatement(PinArgVisitor, VisitStatement(DerefArgVisitor, st))

SwitchInserted(which, pre, cases, default, post) ==
    LET k == Len(pre.basic_blocks)
        sw == BB(post, START_BLOCK).terminator
    IN  /\ Len(post.basic_blocks) = k + 2
        /\ sw.kind = "SwitchInt"
        /\ sw.values = [j \in DOMAIN cases |-> cases[j].state]
        /\ Len(sw.targets) = Len(cases) + 1
        /\ \A j \in DOMAIN cases : sw.targets[j] = cases[j].block + 1
        /\ sw.targets[Len(cases) + 1] = k + 1
        /\ BB(post, k + 1) = BasicBlockData(<<>>, default, FALSE)
        /\ \A i \in Blocks(pre) :
              LET old == BB(pre, i)
                  new == BB(post, i + 1)
              IN  /\ new.statements =
                         [j \in DOMAIN old.statements |-> Adapted(which, old.statements[j])]
                  /\ new.is_cleanup = old.is_cleanup
                  /\ new.terminator.targets =
                         [j \in DOMAIN old.terminator.targets |-> old.terminator.targets[j] + 1]
                  /\ new.terminator.unwind =
                         [j \in DOMAIN old.terminator.unwind |-> old.terminator.unwind[j] + 1]
                  /\ \/ new.terminator.kind = old.terminator.kind
                     \/ /\ which = "drop"
                        /\ old.terminator.kind = "GeneratorDrop"
                        /\ new.terminator.kind = "Return"

\* The body and the cases create_generator_drop_shim hands to insert_switch.
DropShimSwitchInput ==
    LET c == create_cases(mir, transform, "drop")
    IN  [mir |-> c.mir,
         cases |-> <<[state |-> UNRESUMED, block |-> drop_clean[1]]>> \o c.cases]

\* The body and the cases create_generator_resume_function hands to it.
ResumeSwitchInput ==
    LET c == create_cases(PoisonOnUnwind(mir), transform, "resume")
        p1 == insert_panic_block(c.mir, "GeneratorResumedAfterReturn")
        p2 == insert_panic_block(p1.mir, "GeneratorResumedAfterPanic")
    IN  [mir |-> p2.mir,
         cases |-> <<[state |-> UNRESUMED, block |-> START_BLOCK],
                     [state |-> RETURNED, block |-> p1.block],
                     [state |-> POISONED, block |-> p2.block]>> \o c.cases]

C15_InsertSwitchShifts ==
    [][/\ (phase = "drop_shim" /\ phase' = "resume_function") =>
              SwitchInserted("drop", DropShimSwitchInput.mir, DropShimSwitchInput.cases,
                             Return, mir'.generator_drop[1])
       /\ (phase = "resume_function" /\ phase' = "lowered") =>
              SwitchInserted("resume", ResumeSwitchInput.mir, ResumeSwitchInput.cases,
                             Unreachable, mir')]_vars

\* A lowered body with an unwind edge and a suspension point that has a
\* drop target: its two functions carry shifted edges of every kind.
C15_Witness ==
    /\ Lowered
    /\ \E b \in BodyBlocks : BB(ResumeFunction, b).terminator.unwind # None
    /\ \E i \in DOMAIN transform.suspension_points :
          transform.suspension_points[i].drop # None

(***************************************************************************)
(* C16: once every block has been visited, no place of the body is based   *)
(* on a remapped local or indexed by one; each place that was based on a   *)
(* remapped local is the field of the generator argument at the variant    *)
(* and index the remap records for the local, under the same projections,  *)
(* and each place based on another local is as it was.                     *)
(***************************************************************************)
\* The places of a sequence of places after the rewrite.
FieldPlaces(ps) == [j \in DOMAIN ps |-> FieldPlace(ps[j])]

C16_NoPlainRemappedLocal ==
    phase = "transformed" =>
        /\ LET live == LiveSet
           IN  \A l \in DOMAIN transform.remap :
                   FieldPlace(Local(l)) =
                       [local |-> SelfArg,
                        proj |-> <<[k |-> "Downcast", i |-> LayoutVariant],
                                   [k |-> "Field", i |-> Rank(l, live)]>>]
        /\ \A b \in Blocks(mir) :
            LET old == BB(Renamed, b)
                new == BB(mir, b)
                kept == KeptStatements(old)
                exits == old.terminator.kind \in {"Yield", "Return"}
            IN  /\ \A p \in BlockPlaces(new) :
                      PlaceLocals(p) \cap DOMAIN transform.remap = {}
                /\ \A i \in DOMAIN kept :
                      /\ new.statements[i].place = FieldPlaces(kept[i].place)
                      /\ new.statements[i].ops = FieldPlaces(kept[i].ops)
                /\ IF exits
                   THEN new.statements[Len(kept) + 1].ops = ResultOperands(b)
                   ELSE new.terminator.place = FieldPlaces(old.terminator.place)

\* A body with two remapped locals, both named by places, has been visited.
C16_Witness ==
    /\ phase = "transformed"
    /\ Cardinality(DOMAIN transform.remap) = 2
    /\ \A l \in DOMAIN transform.remap :
          \E b \in Blocks(Renamed) : \E p \in BlockPlaces(BB(Renamed, b)) : p.local = l

(***************************************************************************)
(* C17: in every visited block no StorageLive or StorageDead of a remapped *)
(* local is left, and the statements of the block before the visit, less   *)
(* exactly those markers, are the statements after it, one for one and in  *)
(* the same order (followed, in a Yield or Return block, by the two pushed *)
(* statements); markers of other locals are among the statements kept.     *)
(***************************************************************************)
IsMarker(s) == s.kind \in {"StorageLive", "StorageDead"}

\* What a statement is, apart from the places it names.
Tag(s) == [kind |-> s.kind, local |-> s.local, rk |-> s.rk, variant |-> s.variant]

\* The positions of the statements that are not markers of remapped locals.
RECURSIVE KeptPositions(_, _)
KeptPositions(statements, i) ==
    IF i > Len(statements) THEN <<>>
    ELSE (IF IsMarker(statements[i]) /\ statements[i].local \in DOMAIN transform.remap
          THEN <<>> ELSE <<i>>) \o KeptPositions(statements, i + 1)

C17_OnlyRemappedMarkersDeleted ==
    phase = "transformed" =>
        \A b \in Blocks(mir) :
            LET old == BB(Renamed, b).statements
                new == BB(mir, b).statements
                pos == KeptPositions(old, 1)
                pushed == IF BB(Renamed, b).terminator.kind \in {"Yield", "Return"}
                          THEN 2 ELSE 0
            IN  /\ \A i \in DOMAIN new :
                      ~(IsMarker(new[i]) /\ new[i].local \in DOMAIN transform.remap)
                /\ Len(new) = Len(pos) + pushed
                /\ \A j \in DOMAIN pos : Tag(new[j]) = Tag(old[pos[j]])
                /\ \A i \in DOMAIN old :
                      IsMarker(old[i]) /\ old[i].local \notin DOMAIN transform.remap
                          => \E j \in DOMAIN pos : pos[j] = i /\ new[j] = old[i]

\* A visited block had a StorageDead of a remapped local after a statement
\* that stays.
C17_Witness ==
    /\ phase = "transformed"
    /\ \E b \in Blocks(Renamed) :
          LET old == BB(Renamed, b).statements
          IN  \E i, j \in DOMAIN old :
                  /\ i < j
                  /\ ~IsMarker(old[i])
                  /\ old[j].kind = "StorageDead"
                  /\ old[j].local \in DOMAIN transform.remap

(***************************************************************************)
(* C18: compute_layout stops the pass with the "Broken MIR" bug exactly    *)
(* when some local that is live across a suspension point and is not       *)
(* internal has a type that is neither in the generator witness nor among  *)
(* the upvar types; a local that is dead at every suspension point or is   *)
(* internal does not stop it, whatever its type.                           *)
(***************************************************************************)
UnknownType(l) ==
    /\ DeclOf(l).ty \notin input.interior
    /\ DeclOf(l).ty \notin SeqToSet(input.upvars)

BrokenMirIce == ice = "Broken MIR: generator contains type in MIR"

C18_BrokenMirIff ==
    /\ BrokenMirIce =>
          \E l \in LiveSet : ~DeclOf(l).internal /\ UnknownType(l)
    /\ phase = "transform" /\ visit_bb = 0 =>
          LET live == LiveSet
          IN  \A l \in Locals(Renamed) :
                  UnknownType(l) => l \notin live \/ DeclOf(l).internal

\* The sanity check has stopped the pass.
C18_Witness ==
    /\ phase = "aborted"
    /\ BrokenMirIce
    /\ \E l \in LiveSet : DeclOf(l).internal

(***************************************************************************)
(* C19: the layout of a body with n suspending blocks has 3 + n variants;  *)
(* variants 0, 1 and 2 have no fields and each of the other n has all the  *)
(* fields of the remap; so each state a visited block stores (RETURNED, or *)
(* the state of a recorded suspension point) is the index of a variant, as *)
(* is the variant the remap names when there is a field at all.            *)
(***************************************************************************)
\* The states stored by the SetDiscriminant statements of a body.
StatesWritten(m) ==
    UNION {{BB(m, b).statements[i].variant :
               i \in {j \in DOMAIN BB(m, b).statements :
                         BB(m, b).statements[j].kind = "SetDiscriminant"}} :
           b \in Blocks(m)}

C19_VariantPerSuspendingBlock ==
    layout # None =>
        LET variants == layout[1].variant_fields
            n == Cardinality(YieldBlocks(Blocks(input.mir)))
            fields == {transform.remap[l].idx : l \in DOMAIN transform.remap}
        IN  /\ Len(variants) = 3 + n
            /\ \A v \in 1 .. 3 : variants[v] = <<>>
            /\ \A v \in 4 .. 3 + n :
                  /\ SeqToSet(variants[v]) = fields
                  /\ Len(variants[v]) = Cardinality(fields)
                  /\ Len(variants[v]) = Len(layout[1].field_tys)
            /\ phase \in {"transform", "transformed"} =>
                  /\ StatesWritten(mir) \subseteq
                         {RETURNED} \cup {transform.suspension_points[i].state :
                                             i \in DOMAIN transform.suspension_points}
                  /\ \A state \in StatesWritten(mir) : state + 1 \in DOMAIN variants
            /\ \A l \in DOMAIN transform.remap :
                  transform.remap[l].variant + 1 \in DOMAIN variants

\* A body with a suspending block and a remapped local has been visited: the
\* suspend state and RETURNED are stored.
C19_Witness ==
    /\ phase = "transformed"
    /\ Len(layout[1].variant_fields) = 4
    /\ layout[1].variant_fields[4] = <<0>>
    /\ StatesWritten(mir) = {RETURNED, FirstSuspendState}

(***************************************************************************)
(* C20, as stated: no block of the drop shim ends in GeneratorDrop, and    *)
(* every drop call that the dispatch sends to the drop target of a         *)
(* suspension point ends by returning.                                     *)
(***************************************************************************)
\* The drop call in flight or ended was dispatched to the drop target of a
\* suspension point.
ViaDropTarget ==
    /\ call.kind = "drop"
    /\ call.entry >= FirstSuspendState
    /\ PointOf(call.entry).drop # None

NoGeneratorDrop ==
    \A b \in Blocks(DropShim) : BB(DropShim, b).terminator.kind # "GeneratorDrop"

C20_DestroyPathsReturn ==
    Lowered =>
        /\ NoGeneratorDrop
        /\ ViaDropTarget /\ Finished => call.status = "return"

(***************************************************************************)
(* C20, amended: no block of the drop shim ends in GeneratorDrop; the      *)
(* blocks of the body that ended in GeneratorDrop end in Return in the     *)
(* shim and no other terminator of the body has changed its kind; so a     *)
(* drop call sent to the drop target of a suspension point never ends at a *)
(* GeneratorDrop and returns when it reaches a block that ended in one.    *)
(* It may also end by unwinding, or at an Unreachable.                     *)
(***************************************************************************)
\* The block of the shim was a GeneratorDrop block of the body.
WasGeneratorDrop(b) ==
    /\ b \in BodyBlocks
    /\ BB(input.mir, b - 1).terminator.kind = "GeneratorDrop"

C20_GeneratorDropBecomesReturn ==
    Lowered =>
        /\ NoGeneratorDrop
        /\ \A b \in BodyBlocks :
              LET old == BB(ResumeFunction, b).terminator.kind
                  new == BB(DropShim, b).terminator
              IN  IF old = "GeneratorDrop" THEN new = Return ELSE new.kind = old
        /\ \A b \in BodyBlocks :
              WasGeneratorDrop(b) <=> BB(ResumeFunction, b).terminator.kind = "GeneratorDrop"
        /\ ViaDropTarget /\ Finished =>
              /\ call.status \in {"return", "unwind", "Unreachable"}
              /\ WasGeneratorDrop(call.pc) => call.status = "return"

\* A drop call sent to the drop target of a suspension point has returned
\* from a block that ended in GeneratorDrop.
C20_Witness ==
    /\ Lowered
    /\ ViaDropTarget
    /\ call.status = "return"
    /\ WasGeneratorDrop(call.pc)

(***************************************************************************)
(* C21: the storage liveness map has an entry for each block ending in a   *)
(* Yield and for no other block; the entry holds the locals whose storage  *)
(* some path has made live, and not dead again, on reaching the Yield, and *)
(* not the locals that no storage marker names.  So every Yield block the  *)
(* visitor rewrites finds its entry, and the suspension point recorded for *)
(* the block carries it.                                                   *)
(***************************************************************************)
C21_StorageLivenessPerYield ==
    LaidOut =>
        LET map == transform.storage_liveness
            points == transform.suspension_points
        IN  /\ DOMAIN map = YieldBlocks(Blocks(Renamed))
            /\ LayoutBuilt =>
                  \A b \in DOMAIN map :
                      /\ map[b] = {l \in Locals(Renamed) : StorageLiveBefore(l, b)}
                      /\ \A l \in map[b] : ~AlwaysLive(l)
            /\ \A b \in YieldBlocks(Visited) :
                  /\ b \in DOMAIN map
                  /\ points[YieldRank(b)].storage_liveness = map[b]

\* A body with a block that does not end in a Yield and a Yield reached with
\* live storage has been visited.
C21_Witness ==
    /\ phase = "transformed"
    /\ \E b \in Blocks(Renamed) : b \notin DOMAIN transform.storage_liveness
    /\ \E b \in DOMAIN transform.storage_liveness :
          transform.storage_liveness[b] # {}

(***************************************************************************)
(* C22: creating the drop shim changes nothing of the body but attaches    *)
(* the shim to it, and creating the resume function changes nothing of the *)
(* attached shim: the shim has no write of POISONED, no panic block and    *)
(* its dispatch is the one of the drop glue (UNRESUMED and the suspension  *)
(* points with a drop target, otherwise Return).                           *)
(***************************************************************************)
\* The writes of POISONED and the panic blocks of a function.
PoisonWrites(m) ==
    {b \in Blocks(m) :
        \E i \in DOMAIN BB(m, b).statements :
            /\ BB(m, b).statements[i].kind = "SetDiscriminant"
            /\ BB(m, b).statements[i].variant = POISONED}

AssertBlocks(m) == {b \in Blocks(m) : BB(m, b).terminator.kind = "Assert"}

\* The function has the dispatch of the drop glue and nothing that only the
\* resume function gets.
DropOnly(m) ==
    LET sw == BB(m, START_BLOCK).terminator
        points == transform.suspension_points
    IN  /\ PoisonWrites(m) = {}
        /\ AssertBlocks(m) = {}
        /\ m.generator_drop = None
        /\ sw.kind = "SwitchInt"
        /\ SeqToSet(sw.values) =
               {UNRESUMED} \cup {points[i].state :
                                    i \in {j \in DOMAIN points : points[j].drop # None}}
        /\ BB(m, sw.targets[Len(sw.targets)]).terminator = Return

C22_DropShimIsACopy ==
    [][/\ (phase = "drop_shim" /\ phase' = "resume_function") =>
              /\ mir.generator_drop = None
              /\ mir'.generator_drop # None
              /\ [mir' EXCEPT !.generator_drop = None] = mir
              /\ DropOnly(mir'.generator_drop[1])
       /\ (phase = "resume_function" /\ phase' = "lowered") =>
              /\ mir'.generator_drop = mir.generator_drop
              /\ DropOnly(mir'.generator_drop[1])]_vars

\* A body with a Resume block and a suspension point with a drop target is
\* lowered: the resume function writes POISONED and has its panic blocks.
C22_Witness ==
    /\ Lowered
    /\ PoisonWrites(ResumeFunction) # {}
    /\ AssertBlocks(ResumeFunction) # {}
    /\ \E i \in DOMAIN transform.suspension_points :
          transform.suspension_points[i].drop # None
    /\ Len(DropShim.basic_blocks) # Len(ResumeFunction.basic_blocks)

(***************************************************************************)
(* C23, as stated: in the drop shim every place based on the generator     *)
(* argument is based on its dereference, *_1; in the resume function every *)
(* such place is based on the dereference of its field 0, *(_1.0); in      *)
(* neither is the argument itself used as a place, an index or the local   *)
(* of a storage marker.                                                    *)
(***************************************************************************)
\* The places of a function that are based on the generator argument.
SelfPlaces(m) ==
    UNION {{p \in BlockPlaces(BB(m, b)) : p.local = SelfArg} : b \in Blocks(m)}

\* The projection of place p starts with the elements of prefix.
StartsWith(p, prefix) ==
    /\ Len(p.proj) >= Len(prefix)
    /\ SubSeq(p.proj, 1, Len(prefix)) = prefix

\* The argument is no index and no local of a storage marker of m.
NoBareSelfArg(m) ==
    \A b \in Blocks(m) :
        /\ SelfArg \notin LocalsVisited(BB(m, b))
        /\ \A p \in BlockPlaces(BB(m, b)) : SelfArg \notin IndexLocals(p)

C23_NoBareArgument ==
    Lowered =>
        /\ \A p \in SelfPlaces(DropShim) : StartsWith(p, <<Deref>>)
        /\ \A p \in SelfPlaces(ResumeFunction) : StartsWith(p, <<Field(0), Deref>>)
        /\ NoBareSelfArg(DropShim)
        /\ NoBareSelfArg(ResumeFunction)

(***************************************************************************)
(* C23, amended: the above holds of the resume function, and of the drop   *)
(* shim but for one statement: with -Z mir-emit-retag the shim begins with *)
(* a Retag of the argument itself, inserted after the places were          *)
(* rewritten.  The argument is declared *mut G in the shim and             *)
(* Pin<&mut G> in the resume function.  (The two functions are looked at   *)
(* when they have just been made: no call changes them.)                   *)
(***************************************************************************)
\* The drop shim without the leading Retag.
DropShimBody ==
    IF BB(DropShim, START_BLOCK).statements # <<>>
       /\ BB(DropShim, START_BLOCK).statements[1].kind = "Retag"
    THEN [DropShim EXCEPT !.basic_blocks[START_BLOCK + 1].statements = Tail(@)]
    ELSE DropShim

C23_ArgumentAdapted ==
    Lowered /\ call = Idle =>
        /\ \A p \in SelfPlaces(DropShimBody) : StartsWith(p, <<Deref>>)
        /\ \A p \in SelfPlaces(ResumeFunction) : StartsWith(p, <<Field(0), Deref>>)
        /\ NoBareSelfArg(DropShim)
        /\ NoBareSelfArg(ResumeFunction)
        /\ DropShim.local_decls[SelfArg + 1].ty = "*mut G"
        /\ ResumeFunction.local_decls[SelfArg + 1].ty = "Pin<&mut G>"
        /\ IF input.mir_emit_retag
           THEN /\ DropShimBody # DropShim
                /\ BB(DropShim, START_BLOCK).statements[1] = Retag(self_place)
           ELSE DropShimBody = DropShim
        /\ \A b \in Blocks(DropShimBody) \cup Blocks(ResumeFunction) :
              \A m \in {DropShimBody, ResumeFunction} :
                  b \in Blocks(m) =>
                      \A i \in DOMAIN BB(m, b).statements :
                          BB(m, b).statements[i].kind # "Retag"

\* A body that reads an upvar and has a remapped local is lowered with
\* -Z mir-emit-retag: both functions hold places that project from the
\* adapted argument.
C23_Witness ==
    /\ Lowered
    /\ call = Idle
    /\ input.mir_emit_retag
    /\ DOMAIN transform.remap # {}
    /\ \E p \in SelfPlaces(DropShim) : Len(p.proj) = 3
    /\ \E p \in SelfPlaces(ResumeFunction) : Len(p.proj) = 4
    /\ \E p \in SelfPlaces(ResumeFunction) : p.proj = <<Field(0), Deref, Field(0)>>

(***************************************************************************)
(* C24: with n suspension points recorded, the state of the generator is   *)
(* always one of 0, 1, 2, 3, ..., 3 + n - 1, whatever resume and drop      *)
(* calls have run and however they ended; the values of the dispatch of    *)
(* the resume function are pairwise different and are exactly these        *)
(* states; so no resume call takes the otherwise arm, the Unreachable      *)
(* block.                                                                  *)
(***************************************************************************)
States == 0 .. FirstSuspendState + Len(transform.suspension_points) - 1

C24_StatesCovered ==
    Lowered =>
        /\ discr \in States
        /\ call.status # "idle" => call.entry \in States
        /\ \A i, j \in DOMAIN ResumeSwitch.values :
              ResumeSwitch.values[i] = ResumeSwitch.values[j] => i = j
        /\ SeqToSet(ResumeSwitch.values) = States
        /\ call.kind = "resume" =>
              /\ call.pc # ResumeDefault
              /\ call.status # "Unreachable"

\* A resume call entered at the second suspension point has ended.
C24_Witness ==
    /\ Lowered
    /\ call.kind = "resume"
    /\ call.entry = FirstSuspendState + 1
    /\ Finished

(***************************************************************************)
(* C25: once the state is RETURNED or POISONED every step leaves it as it  *)
(* is; a call made in such a state executes the dispatch block and then    *)
(* only the panic block of the state (a resume call, which ends unwinding  *)
(* with the message of the block) or only the default Return block (a drop *)
(* call, which ends returning, having dropped and touched nothing).        *)
(***************************************************************************)
\* The block the dispatch of the function selects in state RETURNED or
\* POISONED.
AbsorbingBlock(kind, state) ==
    IF kind = "drop" THEN {DropDefault}
    ELSE IF state = RETURNED THEN AfterReturn ELSE AfterPanic

C25_ReturnedPoisonedAbsorbing ==
    [][(Lowered /\ discr \in {RETURNED, POISONED}) =>
          /\ discr' = discr
          /\ call'.entry = discr
          /\ call'.trace \subseteq {START_BLOCK} \cup AbsorbingBlock(call'.kind, discr)
          /\ call'.dropped = {} /\ call'.touched \subseteq {}
          /\ call'.status \in
                 {"running", IF call'.kind = "drop" THEN "return" ELSE "unwind"}
          /\ (call'.status = "unwind") =>
                 call'.msg = IF discr = RETURNED THEN "GeneratorResumedAfterReturn"
                             ELSE "GeneratorResumedAfterPanic"]_vars

\* The drop glue of a poisoned generator has returned.
C25_Witness ==
    /\ Lowered
    /\ discr = POISONED
    /\ call.kind = "drop"
    /\ call.entry = POISONED
    /\ call.status = "return"

(***************************************************************************)
(* C26: the remap sends its m locals, in increasing order, to the fields   *)
(* 0, 1, ..., m - 1 of variant 3, one field each, and the type it records  *)
(* for a local is the type of its field in the layout; the declaration of  *)
(* each remapped local is replaced by an internal local of unit type, the  *)
(* number of declarations and every other declaration stay as they were.   *)
(***************************************************************************)
C26_DistinctFieldSlots ==
    LaidOut =>
        LET remap == transform.remap
            m == Cardinality(DOMAIN remap)
        IN  /\ {remap[l].idx : l \in DOMAIN remap} = 0 .. m - 1
            /\ \A l, k \in DOMAIN remap :
                  /\ remap[l].idx = remap[k].idx => l = k
                  /\ l < k => remap[l].idx < remap[k].idx
            /\ \A l \in DOMAIN remap :
                  /\ remap[l].variant = LayoutVariant
                  /\ remap[l].ty = layout[1].field_tys[remap[l].idx + 1]
            /\ Len(layout[1].field_tys) = m
            /\ Len(mir.local_decls) = Len(Renamed.local_decls)
            /\ \A l \in Locals(Renamed) :
                  mir.local_decls[l + 1] =
                      IF l \in DOMAIN remap THEN LocalDecl("()", TRUE) ELSE DeclOf(l)

\* The layout of a body with two live locals of different types is built.
C26_Witness ==
    /\ phase = "transform"
    /\ visit_bb = 0
    /\ \E l, k \in DOMAIN transform.remap :
          l < k /\ transform.remap[l].ty # transform.remap[k].ty

(***************************************************************************)
(* C27: the generator argument and the return place are never keys of the  *)
(* remap.  After the return place is renamed no place of the body names    *)
(* it, so it is live at no Yield; the argument is taken out of the live    *)
(* set even when it is live across a Yield, so that it is not what fails   *)
(* the type check of the layout either.  So, in every visited block        *)
(* that ended in Yield or Return, the pushed result write assigns the      *)
(* return place itself and the pushed state write sets the discriminant of *)
(* the argument itself.                                                    *)
(***************************************************************************)
\* The locals some place of the body names.
BodyLocals(m) == UNION {BlockLocals(BB(m, b)) : b \in Blocks(m)}

C27_ArgumentAndResultNotRemapped ==
    phase \notin {"run_pass", "done"} =>
        /\ SelfArg \notin DOMAIN transform.remap
        /\ RETURN_PLACE \notin DOMAIN transform.remap
        /\ phase = "compute_layout" => RETURN_PLACE \notin BodyLocals(mir)
        /\ BrokenMirIce =>
              \E l \in Locals(Renamed) \ {SelfArg} :
                  /\ ~DeclOf(l).internal /\ UnknownType(l)
                  /\ \E b \in YieldBlocks(Blocks(Renamed)) : LiveAcross(l, b)
        /\ \A b \in Visited :
              BB(Renamed, b).terminator.kind \in {"Yield", "Return"}
              /\ phase \in {"transform", "transformed"} =>
                  LET new == BB(mir, b).statements
                      n == Len(new)
                  IN  /\ new[n - 1].kind = "Assign"
                      /\ new[n - 1].place = <<[local |-> RETURN_PLACE, proj |-> <<>>]>>
                      /\ new[n].kind = "SetDiscriminant"
                      /\ new[n].place = <<[local |-> SelfArg, proj |-> <<>>]>>

\* A body that reads an upvar after a Yield and assigns its result has been
\* visited: the argument is live across the Yield and is not remapped.
C27_Witness ==
    /\ phase = "transformed"
    /\ DOMAIN transform.remap # {}
    /\ RETURN_PLACE \in BodyLocals(input.mir)
    /\ \E b \in YieldBlocks(Blocks(Renamed)) : LiveAfter(SelfArg, b)

(***************************************************************************)
(* C28: run_pass leaves a body without a yield type as it is.  A lowered   *)
(* body has no yield type and has its drop shim attached; run_pass, run on *)
(* it again, returns at once: the body, the shim and everything else stay  *)
(* as they are, and the assertion that no drop shim is attached is not     *)
(* reached, in this run or any other.                                      *)
(***************************************************************************)
C28_SecondRunChangesNothing ==
    [][/\ (phase = "run_pass" /\ input.mir.yield_ty = None) =>
              /\ phase' = "done"
              /\ mir' = input.mir
              /\ UNCHANGED <<transform, layout, drop_clean, ice>>
       /\ phase = "lowered" =>
              /\ mir.yield_ty = None
              /\ mir.generator_drop # None
              /\ phase' # "lowered" =>
                    /\ phase' = "done"
                    /\ UNCHANGED <<mir, transform, layout, drop_clean, ice, discr, call>>
       /\ ice' # "assertion failed: mir.generator_drop.is_none()"]_vars

\* The second run of the pass on a lowered generator has returned.
C28_Witness ==
    /\ phase = "done"
    /\ input.mir.yield_ty # None
    /\ mir.generator_drop # None
    /\ Len(transform.suspension_points) > 0

====
